---- MODULE Spec2Model ----
(***************************************************************************)
(* riphttp scanning engine: the executor (scanner/executor.rs), the        *)
(* scanner facade (scanner/scanner.rs), the recorder (scanner/recorder.rs) *)
(* and the scan command of main.rs, with the checkpoint and output files.  *)
(*                                                                         *)
(* Indices are zero-based as in the source; TLA+ sequences are one-based,  *)
(* so the target with index i is targetsFile[i + 1].                       *)
(***************************************************************************)
EXTENDS Integers, Sequences, FiniteSets, TLC

\* ------------------------------------------------------------------ bounds

\* Largest number of lines of the targets file.
MaxTargets == 3

\* Largest value of --threads (0 is included: both TargetScanner::new and
\* execute raise it to 1).
MaxThreads == 3

\* Largest number of times the process is killed and started again.
MaxCrashes == 1

\* ------------------------------------------------------------------- texts

\* A text is a sequence of characters (a word without special characters
\* counts as one); the whitespace characters that occur in the texts below.
Whitespace == {" ", "\r", "\n"}

\* The finding texts a probe may return: empty, whitespace-only, a finding.
Outputs == {<<>>, <<" ">>, <<"h", "i", "t">>}

\* A probe invocation that returns Err (InvalidTarget).
ProbeErr == <<"InvalidTarget">>

\* The lines of the targets file, of which a prefix is loaded (a duplicate
\* target is included: targets are identified by position).
TargetPool == <<"a", "b", "a", "c", "b">>

RECURSIVE TrimStart(_)
TrimStart(s) ==
    IF s # <<>> /\ Head(s) \in Whitespace THEN TrimStart(Tail(s)) ELSE s

RECURSIVE TrimEnd(_)
TrimEnd(s) ==
    IF s # <<>> /\ s[Len(s)] \in Whitespace
    THEN TrimEnd(SubSeq(s, 1, Len(s) - 1))
    ELSE s

\* str::trim
Trim(s) == TrimEnd(TrimStart(s))

\* A mutant of HasFinding: the test without the trim.
HasFinding_NoTrim(output) == output # <<>>

\* !output.trim().is_empty()
HasFinding(output) == Trim(output) # <<>>

Min(a, b) == IF a <= b THEN a ELSE b

\* ------------------------------------------------------------------- state

\* The checkpoint file: absent (read_checkpoint yields None), or present with
\* the fields of its Checkpoint.
NoCkpt == [present |-> FALSE, next_index |-> 0, targets_path |-> <<>>,
           output_path |-> <<>>, mode |-> <<>>]

\* The --targets, --output and --mode of a scan command.
TargetsArg == <<"t", "1">>
OtherTargetsArg == <<"t", "2">>
OutputArg == <<"o">>
ModeArg == <<"T", "M">>
OtherModeArg == <<"T", "S">>

FirstRequest == [targets_path |-> TargetsArg, mode |-> ModeArg]

\* The requests of a restarted command: the same one, another targets path, or
\* another mode.
Requests ==
    {FirstRequest,
     [targets_path |-> OtherTargetsArg, mode |-> ModeArg],
     [targets_path |-> TargetsArg, mode |-> OtherModeArg]}

VARIABLES
    \* inputs of the run
    entry,          \* "cli": main's scan command; "lib": a library caller of
                    \* TargetScanner::scan_with_options; "execute": a caller
                    \* of executor::execute with a bare task and no sink
    recorder,       \* options.recorder is Some; for entry "execute": the sink
                    \* result_tx is Some
    targetsFile,    \* the loaded targets (load_targets)
    probeOut,       \* probeOut[i + 1]: what the probe returns for index i
    threads,        \* --threads / concurrency
    \* files
    ckptFile,       \* NoCkpt or a Checkpoint
    outFile,        \* the lines of the output file that reached the file
    outBuf,         \* lines written to the file handle and not yet flushed
    \* main
    mainPc,         \* "none", "init", "scanning", "exit_ok", "exit_err"
    resume,         \* --resume of the current process
    crashes,        \* how many times the process was killed
    \* scan_with_options / finalize_recorder
    scanPc,         \* "idle", "start", "exec", "await", "returned", "dropped"
    scanResult,     \* the ScanResult once returned
    cfg,            \* the RecorderConfig: base_index, total_targets,
                    \* truncate_output, targets_path, output_path, mode
    \* executor::execute
    execPc,         \* "idle", "start", "wait", "done", "dropped"
    position,       \* position: the next submission index
    pending,        \* the submission indices in flight (FuturesUnordered)
    results,        \* the buffered (index, target, output) in completion order
    execResult,     \* what execute returned
    \* forwarding task
    fwdChan,        \* the (index, target, output) channel of the sink
    senderAlive,    \* the scanner's sender of fwdChan is not dropped
    fwdPc,          \* "none", "run", "ok", "err"
    \* recorder task
    recChan,        \* the RecorderMessage channel
    handleAlive,    \* the RecorderHandle kept in RecorderRuntime is not dropped
    recPc,          \* "none", "open", "loop", "commit", "ckpt", "finish", "ok", "err"
    recAfter,       \* where commit_ready returns to: "loop" or "finish"
    next_expected_index,
    recPending,     \* the reorder buffer: a set of [idx, target, output]
    \* history
    written,        \* absolute indices of the lines written by this process
    committed,      \* number of records commit_ready has taken from the buffer
                    \* and handled in this process
    fault,          \* an I/O operation of the recorder has failed
    crashNext,      \* the lowest next_index the checkpoint held when the process
                    \* was killed since the last fresh start; -1 before any kill
    request,        \* targets_path and mode of the current scan command
    atStart,        \* the checkpoint and output files as the current process
                    \* found them: [ckpt, out]
    callerSent,     \* the messages a direct caller of RecorderHandle has sent
    \* a caller of scanner/checkpoint.rs
    ckIn,           \* the Checkpoint handed to write_checkpoint
    ckBytes,        \* the file at the checkpoint path: [exists, bytes]
    ckRead,         \* what read_checkpoint returned: [kind, value]
    \* TrailMergeTask::execute
    tmPc,           \* "off", "detect", "baseline", "expect", "attack", "done"
    tmDetected,     \* what detect_protocol returns: a list of [protocol, port]
    tmIndex,        \* the position in tmDetected of the protocol being scanned
    tmFindings,     \* findings
    tmOut,          \* what execute returned: [kind, text]
    tmLog,          \* the responses so far: [index, request, resp, counted]
    \* TrailSmugTask::execute
    tsPc,           \* "off", "baseline", "raw", "recheck", "done"
    tsAttacks,      \* attacks: the payloads of build_attack_requests
    tsBaseline,     \* baseline_res.status
    tsPayload,      \* the position in tsAttacks of req
    tsIter,         \* i
    tsDiff,         \* diff
    tsFindings,     \* findings
    tsOut,          \* what execute returned: [kind, text]
    tsLog,          \* the exchanges so far: [payload, iter, request, resp]
    \* the probe futures polled by one call of executor::execute
    psPending,      \* pending: invocation -> [pc, payload, iter] with pc one of
                    \* "raw", "recheck", "sleep", "done"
    psSleeping,     \* the invocation whose thread::sleep holds the thread that
                    \* polls pending; 0 when the thread is free
    psSpawned       \* steps taken so far by the tasks started with tokio::spawn

vars == <<entry, recorder, targetsFile, probeOut, threads, ckptFile, outFile, outBuf,
          mainPc, resume, crashes, scanPc, scanResult, cfg, execPc, position,
          pending, results, execResult, fwdChan, senderAlive, fwdPc, recChan,
          handleAlive, recPc, recAfter, next_expected_index, recPending,
          written, committed, fault, crashNext, request, atStart, callerSent,
          ckIn, ckBytes,
          ckRead,
          tmPc, tmDetected, tmIndex, tmFindings, tmOut, tmLog,
          tsPc, tsAttacks, tsBaseline, tsPayload, tsIter, tsDiff, tsFindings,
          tsOut, tsLog, psPending, psSleeping, psSpawned>>

fileVars == <<ckptFile, outFile, outBuf>>
ckVars == <<ckIn, ckBytes, ckRead>>
\* What no step of a scan changes: its inputs and the state of the other callers.
tmVars == <<tmPc, tmDetected, tmIndex, tmFindings, tmOut, tmLog>>
tsVars == <<tsPc, tsAttacks, tsBaseline, tsPayload, tsIter, tsDiff, tsFindings,
            tsOut, tsLog>>
psVars == <<psPending, psSleeping, psSpawned>>
inputVars == <<entry, recorder, targetsFile, probeOut, threads, ckVars, tmVars,
               tsVars, psVars>>
histVars == <<crashNext, request, atStart, callerSent>>
execVars == <<execPc, position, pending, results, execResult>>
fwdVars == <<fwdChan, senderAlive, fwdPc>>
recVars == <<recChan, handleAlive, recPc, recAfter, next_expected_index,
             recPending, written, committed, fault>>

\* A mutant of Concurrency: the cap is one too high.
Concurrency_OffByOne(n) == n + 1

\* usize::max(concurrency, 1)
Concurrency(n) == IF n < 1 THEN 1 ELSE n

\* ---------------------------------------------------------------- Init

NoResult == [kind |-> "none", value |-> <<>>, target |-> ""]

\* No file at the path.
NoFile == [exists |-> FALSE, bytes |-> <<>>]

\* read_checkpoint has not been called.
Unread == [kind |-> "unread", value |-> NoCkpt]

\* The checkpoint caller at rest.
CkIdle ==
    /\ ckIn = NoCkpt
    /\ ckBytes = NoFile
    /\ ckRead = Unread

\* A probe has not returned.
NoOut == [kind |-> "none", text |-> <<>>, err |-> ""]

\* No TrailMerge probe is running.
TmIdle ==
    /\ tmPc = "off"
    /\ tmDetected = <<>>
    /\ tmIndex = 0
    /\ tmFindings = <<>>
    /\ tmOut = NoOut
    /\ tmLog = <<>>

\* No TrailSmug probe is running.
TsIdle ==
    /\ tsPc = "off"
    /\ tsAttacks = <<>>
    /\ tsBaseline = 0
    /\ tsPayload = 0
    /\ tsIter = 0
    /\ tsDiff = FALSE
    /\ tsFindings = <<>>
    /\ tsOut = NoOut
    /\ tsLog = <<>>

\* No probe future is being polled.
PsIdle ==
    /\ psPending = <<>>
    /\ psSleeping = 0
    /\ psSpawned = 0

NoCfg == [base_index |-> 0, total_targets |-> 0, truncate_output |-> FALSE,
          targets_path |-> <<>>, output_path |-> <<>>, mode |-> <<>>]

Init ==
    /\ entry \in {"cli", "lib", "execute"}
    /\ recorder \in (IF entry = "cli" THEN {TRUE} ELSE BOOLEAN)
    /\ \E n \in 0..MaxTargets :
          /\ targetsFile = SubSeq(TargetPool, 1, n)
          /\ probeOut \in [1..n ->
                (IF entry = "cli" THEN Outputs ELSE Outputs \cup {ProbeErr})]
    /\ threads \in (IF entry = "cli" THEN 1..MaxThreads ELSE 0..MaxThreads)
    /\ ckptFile = NoCkpt
    /\ outFile = <<>>
    /\ outBuf = <<>>
    /\ mainPc = (IF entry = "cli" THEN "init" ELSE "none")
    /\ resume = FALSE
    /\ crashes = 0
    /\ scanPc = (IF entry = "lib" THEN "start" ELSE "idle")
    /\ scanResult = NoResult
    /\ cfg = (IF entry = "lib" /\ recorder
              THEN [base_index |-> 0, total_targets |-> Len(targetsFile),
                    truncate_output |-> TRUE, targets_path |-> TargetsArg,
                    output_path |-> OutputArg, mode |-> ModeArg]
              ELSE NoCfg)
    /\ execPc = (IF entry = "execute" THEN "start" ELSE "idle")
    /\ position = 0
    /\ pending = {}
    /\ results = <<>>
    /\ execResult = NoResult
    /\ fwdChan = <<>>
    /\ senderAlive = FALSE
    /\ fwdPc = "none"
    /\ recChan = <<>>
    /\ handleAlive = FALSE
    /\ recPc = "none"
    /\ recAfter = "loop"
    /\ next_expected_index = 0
    /\ recPending = {}
    /\ written = <<>>
    /\ committed = 0
    /\ fault = FALSE
    /\ crashNext = -1
    /\ request = FirstRequest
    /\ atStart = [ckpt |-> NoCkpt, out |-> <<>>]
    /\ callerSent = <<>>
    /\ CkIdle
    /\ TmIdle
    /\ TsIdle
    /\ PsIdle

\* ------------------------------------------------------- scanner/checkpoint.rs

\* Checkpoint::new, as the file holds it after write_checkpoint.
Checkpoint(next_index, targets_path, output_path, mode) ==
    [present |-> TRUE, next_index |-> next_index,
     targets_path |-> targets_path, output_path |-> output_path,
     mode |-> mode]

\* A mutant of checkpoint_template: the index relative to this run.
checkpoint_template_Relative(next_index) ==
    Checkpoint(next_index - cfg.base_index, cfg.targets_path, cfg.output_path,
               cfg.mode)

\* RecorderConfig::checkpoint_template
checkpoint_template(next_index) ==
    Checkpoint(next_index, cfg.targets_path, cfg.output_path, cfg.mode)

\* The decimal digits; Digits[d + 1] is the digit d.
Digits == <<"0", "1", "2", "3", "4", "5", "6", "7", "8", "9">>

IsDigit(ch) == \E k \in 1..Len(Digits) : Digits[k] = ch

DigitValue(ch) == (CHOOSE k \in 1..Len(Digits) : Digits[k] = ch) - 1

\* Display for usize: decimal, no sign, no leading zero.
RECURSIVE ToDecimal(_)
ToDecimal(n) ==
    IF n < 10 THEN <<Digits[n + 1]>>
    ELSE ToDecimal(n \div 10) \o <<Digits[(n % 10) + 1]>>

RECURSIVE DecimalValue(_)
DecimalValue(ds) ==
    IF ds = <<>> THEN 0
    ELSE DecimalValue(SubSeq(ds, 1, Len(ds) - 1)) * 10 + DigitValue(ds[Len(ds)])

\* str::parse::<usize>: an optional "+" and at least one digit, nothing else
\* (the texts here stay far below usize::MAX).
ParseUsize(text) ==
    LET ds == IF text # <<>> /\ Head(text) = "+" THEN Tail(text) ELSE text
    IN  IF ds # <<>> /\ \A k \in 1..Len(ds) : IsDigit(ds[k])
        THEN [ok |-> TRUE, value |-> DecimalValue(ds)]
        ELSE [ok |-> FALSE, value |-> 0]

\* The keys of the checkpoint file.
KeyNextIndex == <<"next_index">>
KeyTargets == <<"targets">>
KeyOutput == <<"output">>
KeyMode == <<"mode">>

\* Checkpoint::to_string
to_string(c) ==
    KeyNextIndex \o <<"=">> \o ToDecimal(c.next_index) \o <<"\n">>
    \o KeyTargets \o <<"=">> \o c.targets_path \o <<"\n">>
    \o KeyOutput \o <<"=">> \o c.output_path \o <<"\n">>
    \o KeyMode \o <<"=">> \o c.mode \o <<"\n">>

\* A line as str::lines yields it: without its "\n", and without one "\r"
\* before that.
StripCr(line) ==
    IF line # <<>> /\ line[Len(line)] = "\r"
    THEN SubSeq(line, 1, Len(line) - 1)
    ELSE line

RECURSIVE LinesFrom(_, _)
LinesFrom(rest, cur) ==
    IF rest = <<>> THEN (IF cur = <<>> THEN <<>> ELSE <<cur>>)
    ELSE IF Head(rest) = "\n"
         THEN <<StripCr(cur)>> \o LinesFrom(Tail(rest), <<>>)
         ELSE LinesFrom(Tail(rest), Append(cur, Head(rest)))

\* str::lines
Lines(data) == LinesFrom(data, <<>>)

\* line.split_once('='): the position of the first "=", or 0.
EqPos(line) ==
    IF \E k \in 1..Len(line) : line[k] = "="
    THEN CHOOSE k \in 1..Len(line) :
            /\ line[k] = "="
            /\ \A j \in 1..(k - 1) : line[j] # "="
    ELSE 0

\* The key and the value inserted into the map for a line with "=".
KeyOf(line) == Trim(SubSeq(line, 1, EqPos(line) - 1))
ValueOf(line) == Trim(SubSeq(line, EqPos(line) + 1, Len(line)))

\* values.get(key) after the loop over the lines: the last insert for the key.
Get(data, key) ==
    LET ls == Lines(data)
        at == {j \in 1..Len(ls) : EqPos(ls[j]) # 0 /\ KeyOf(ls[j]) = key}
    IN  IF at = {} THEN [found |-> FALSE, value |-> <<>>]
        ELSE LET last == CHOOSE j \in at : \A k \in at : k <= j
             IN  [found |-> TRUE, value |-> ValueOf(ls[last])]

\* Checkpoint::from_str; None is NoCkpt.
from_str(data) ==
    LET next_index == Get(data, KeyNextIndex)
        targets_path == Get(data, KeyTargets)
        output_path == Get(data, KeyOutput)
        mode == Get(data, KeyMode)
    IN  IF ~next_index.found THEN NoCkpt
        ELSE IF ~ParseUsize(next_index.value).ok THEN NoCkpt
        ELSE IF ~targets_path.found \/ ~output_path.found \/ ~mode.found
             THEN NoCkpt
        ELSE Checkpoint(ParseUsize(next_index.value).value,
                        targets_path.value, output_path.value, mode.value)

\* A byte sequence that is not UTF-8.
InvalidByte == "0xFF"

IsUtf8(bytes) == \A k \in 1..Len(bytes) : bytes[k] # InvalidByte

\* read_checkpoint: fs::read_to_string fails with NotFound (Ok(None)), fails
\* with InvalidData on bytes that are not UTF-8 (Err), or yields the content.
read_checkpoint(file) ==
    IF ~file.exists THEN [kind |-> "ok", value |-> NoCkpt]
    ELSE IF ~IsUtf8(file.bytes) THEN [kind |-> "err", value |-> NoCkpt]
    ELSE [kind |-> "ok", value |-> from_str(file.bytes)]

\* ----------------------------------------------------------------- main.rs

NumTargets == Len(targetsFile)

\* A mutant of Mismatch: only the targets path is compared.
Mismatch_TargetsOnly(checkpoint, req) ==
    checkpoint.targets_path # req.targets_path

\* main with --resume: the checkpoint's targets path or mode is not the
\* requested one.
Mismatch(checkpoint, req) ==
    \/ checkpoint.targets_path # req.targets_path
    \/ checkpoint.mode # req.mode

\* A mutant of ResumeRejected: a missing checkpoint is not an error.
ResumeRejected_MismatchOnly(checkpoint, req) ==
    checkpoint.present /\ Mismatch(checkpoint, req)

\* main with --resume returns an error before anything is written:
\* read_checkpoint gave no checkpoint (no file, or content from_str does not
\* accept) or failed, or the checkpoint is for other targets or another mode.
ResumeRejected(checkpoint, req) ==
    ~checkpoint.present \/ Mismatch(checkpoint, req)

\* A mutant of NothingLeft: only a checkpoint beyond the last target ends the
\* command.
NothingLeft_Beyond(base_index, total_targets) == base_index > total_targets

\* base_index >= total_targets on a resumed run, remaining_total == 0 on any:
\* the command removes the checkpoint and returns Ok.
NothingLeft(base_index, total_targets) == base_index >= total_targets

\* The scan command up to the call of scan_with_options: the checkpoint is read
\* (--resume) or removed (fresh), base_index is set, and the initial checkpoint
\* is written.
MainStart(r, req) ==
    /\ entry = "cli"
    /\ mainPc = "init"
    /\ req = FirstRequest \/ (r /\ ckptFile.present)
    /\ resume' = r
    /\ request' = req
    /\ atStart' = [ckpt |-> ckptFile, out |-> outFile]
    /\ IF r /\ ResumeRejected(ckptFile, req)
       THEN \* no checkpoint found, or its targets or mode do not match
            /\ mainPc' = "exit_err"
            /\ UNCHANGED <<ckptFile, cfg, scanPc>>
       ELSE LET base_index == IF r THEN Min(ckptFile.next_index, NumTargets)
                                   ELSE 0
                remaining_total == NumTargets - base_index
            IN  IF NothingLeft(base_index, NumTargets)
                THEN \* nothing left to scan: remove_checkpoint and return
                     /\ ckptFile' = NoCkpt
                     /\ mainPc' = "exit_ok"
                     /\ UNCHANGED <<cfg, scanPc>>
                ELSE /\ cfg' = [base_index |-> base_index,
                                total_targets |-> remaining_total,
                                truncate_output |-> ~r,
                                targets_path |-> req.targets_path,
                                output_path |-> OutputArg,
                                mode |-> req.mode]
                     /\ ckptFile' = Checkpoint(base_index, req.targets_path,
                                               OutputArg, req.mode)
                     /\ mainPc' = "scanning"
                     /\ scanPc' = "start"
    /\ crashNext' = (IF r THEN crashNext ELSE -1)
    /\ UNCHANGED <<inputVars, outFile, outBuf, crashes, scanResult, execVars,
                   fwdVars, recVars, callerSent>>

\* main after scan_with_options has returned.
MainExit ==
    /\ mainPc = "scanning"
    /\ scanPc = "returned"
    /\ mainPc' = (IF scanResult.kind = "ok" THEN "exit_ok" ELSE "exit_err")
    /\ UNCHANGED <<inputVars, histVars, fileVars, resume, crashes, scanPc, scanResult,
                   cfg, execVars, fwdVars, recVars>>

\* -------------------------------------------------------- scanner/executor.rs

\* The targets handed to scan_with_options: targets.skip(base_index).
NumScan == NumTargets - cfg.base_index

\* The target with submission index i.
TargetAt(i) == targetsFile[cfg.base_index + i + 1]

\* ProgressTask::execute: an error of the inner task becomes an empty output.
ProgressTaskExecute(inner) == IF inner = ProbeErr THEN <<>> ELSE inner

\* What the task handed to execute returns for submission index i.
TaskExecute(i) ==
    LET inner == probeOut[cfg.base_index + i + 1]
    IN  IF entry = "execute" THEN inner ELSE ProgressTaskExecute(inner)

RECURSIVE InsertByIndex(_, _)
InsertByIndex(sorted, r) ==
    IF sorted = <<>> THEN <<r>>
    ELSE IF r.index < Head(sorted).index THEN <<r>> \o sorted
    ELSE <<Head(sorted)>> \o InsertByIndex(Tail(sorted), r)

RECURSIVE SortFrom(_, _)
SortFrom(sorted, rest) ==
    IF rest = <<>> THEN sorted
    ELSE SortFrom(InsertByIndex(sorted, Head(rest)), Tail(rest))

\* A mutant of SortByIndex: the results stay in completion order.
SortByIndex_None(rs) == rs

\* results.sort_by_key(|(index, _, _)| *index)
SortByIndex(rs) == SortFrom(<<>>, rs)

\* The returned vector: the sorted results without their indices.
Collect(rs) ==
    LET sorted == SortByIndex(rs)
    IN  [k \in 1..Len(sorted) |-> <<sorted[k].target, sorted[k].output>>]

Ok(v) == [kind |-> "ok", value |-> v, target |-> ""]
TaskFailed(t) == [kind |-> "task_failed", value |-> <<>>, target |-> t]
Persistence == [kind |-> "persistence", value |-> <<>>, target |-> ""]

\* A mutant of Refill: no target is pulled once the recorder has failed.
Refill_UnlessFailed(pos) == {k \in {pos} : k < NumScan /\ ~fault}

\* A mutant of Refill: no target is pulled after a completion.
Refill_None(pos) == {}

\* A mutant of Refill: a second target is pulled for every completion.
Refill_Two(pos) == {k \in {pos, pos + 1} : k < NumScan}

\* The submission indices started when an invocation completes and the next
\* one is pulled from the iterator (at most one).
Refill(pos) == {k \in {pos} : k < NumScan}

\* execute from its start to the first await: the priming loop.
Prime ==
    LET k == Min(Concurrency(threads), NumScan)
    IN  /\ pending' = 0..(k - 1)
        /\ position' = k
        /\ results' = <<>>
        /\ IF k = 0
           THEN /\ execPc' = "done"
                /\ execResult' = Ok(<<>>)
           ELSE /\ execPc' = "wait"
                /\ execResult' = NoResult

\* A caller of executor::execute with a bare task, with or without a sink.
ExecStart ==
    /\ execPc = "start"
    /\ Prime
    /\ UNCHANGED <<inputVars, histVars, fileVars, mainPc, resume, crashes, scanPc,
                   scanResult, cfg, fwdVars, recVars>>

\* A mutant of SinkOpen: nothing is ever sent to the sink.
SinkOpen_Never == FALSE

\* The sink is present and its receiver (the forwarding task of the scanner,
\* or the direct caller of execute) still holds the channel.
SinkOpen == recorder /\ (entry = "execute" \/ fwdPc = "run")

\* A mutant of IsErr: no result is taken for an error.
IsErr_Never(result) == FALSE

\* The Err arm of the match on a completed invocation.
IsErr(result) == result = ProbeErr

\* pending.next().await yields the invocation with submission index i.
ExecComplete(i) ==
    /\ execPc = "wait"
    /\ i \in pending
    /\ LET output == TaskExecute(i) IN
       IF IsErr(output)
       THEN \* Err(err) => return Err(err): the in-flight invocations are dropped
            /\ execPc' = "done"
            /\ execResult' = TaskFailed(TargetAt(i))
            /\ pending' = {}
            /\ UNCHANGED <<position, results, fwdChan>>
       ELSE LET r == [index |-> i, target |-> TargetAt(i), output |-> output]
                started == Refill(position)
            IN  /\ fwdChan' = (IF SinkOpen THEN Append(fwdChan, r) ELSE fwdChan)
                /\ results' = Append(results, r)
                /\ pending' = (pending \ {i}) \cup started
                /\ position' = position + Cardinality(started)
                /\ IF pending' = {}
                   THEN /\ execPc' = "done"
                        /\ execResult' = Ok(Collect(results'))
                   ELSE /\ execPc' = "wait"
                        /\ execResult' = NoResult
    /\ UNCHANGED <<inputVars, histVars, fileVars, mainPc, resume, crashes, scanPc,
                   scanResult, cfg, senderAlive, fwdPc, recVars>>

\* --------------------------------------------------------- scanner/scanner.rs

\* The recorder task has ended, so its receiver is dropped and sends fail.
RecorderGone == recPc \in {"ok", "err"}

FlushMsg == [type |-> "flush", idx |-> 0, target |-> "", output |-> <<>>]

RecordMsg(absolute_index, target, output) ==
    [type |-> "record", idx |-> absolute_index, target |-> target,
     output |-> output]

\* scan_with_options up to the first await of execute: spawn_recorder spawns
\* the recorder task and the forwarding task when a recorder is configured, and
\* execute primes its pool.
ScanStart ==
    /\ scanPc = "start"
    /\ scanPc' = "exec"
    /\ Prime
    /\ IF recorder
       THEN /\ recPc' = "open"
            /\ next_expected_index' = cfg.base_index
            /\ recPending' = {}
            /\ recChan' = <<>>
            /\ handleAlive' = TRUE
            /\ fwdPc' = "run"
            /\ fwdChan' = <<>>
            /\ senderAlive' = TRUE
       ELSE UNCHANGED <<recPc, next_expected_index, recPending, recChan,
                        handleAlive, fwdPc, fwdChan, senderAlive>>
    /\ UNCHANGED <<inputVars, histVars, fileVars, mainPc, resume, crashes, scanResult,
                   cfg, recAfter, written, committed, fault>>

\* A mutant of ScanOutcome: the recorder's outcome is not looked at.
ScanOutcome_IgnoreRecorder(execution_outcome, recorder_ok) == execution_outcome

\* The match of scan_with_options on (execution_outcome, recorder_outcome).
ScanOutcome(execution_outcome, recorder_ok) ==
    IF execution_outcome.kind # "ok" THEN execution_outcome
    ELSE IF ~recorder_ok THEN Persistence
    ELSE execution_outcome

\* A mutant of HandleDroppedAt: the handle is dropped with the sender.
HandleDroppedAt_Finalize(pc) == pc \in {"await", "returned", "dropped"}

\* The RecorderHandle of RecorderRuntime is a local of finalize_recorder: it is
\* dropped when finalize_recorder returns, or with the future of the scan.
HandleDroppedAt(pc) == pc \in {"returned", "dropped"}

\* execute has returned; finalize_recorder requests a flush and drops the
\* sender of the forwarding channel. Without a recorder it returns at once.
ScanFinalize ==
    /\ scanPc = "exec"
    /\ execPc = "done"
    /\ IF recorder
       THEN /\ recChan' = (IF RecorderGone THEN recChan
                           ELSE Append(recChan, FlushMsg))
            /\ senderAlive' = FALSE
            /\ scanPc' = "await"
            /\ UNCHANGED scanResult
       ELSE /\ scanPc' = "returned"
            /\ scanResult' = ScanOutcome(execResult, TRUE)
            /\ UNCHANGED <<recChan, senderAlive>>
    /\ handleAlive' = (recorder /\ ~HandleDroppedAt(scanPc'))
    /\ UNCHANGED <<inputVars, histVars, fileVars, mainPc, resume, crashes, cfg, execVars,
                   fwdChan, fwdPc, recPc, recAfter,
                   next_expected_index, recPending, written, committed, fault>>

\* forward_handle.await and then recorder_task.await have completed:
\* finalize_recorder returns and scan_with_options returns its result.
ScanReturn ==
    /\ scanPc = "await"
    /\ fwdPc \in {"ok", "err"}
    /\ recPc \in {"ok", "err"}
    /\ scanPc' = "returned"
    /\ handleAlive' = (recorder /\ ~HandleDroppedAt(scanPc'))
    /\ scanResult' = ScanOutcome(execResult, fwdPc = "ok" /\ recPc = "ok")
    /\ UNCHANGED <<inputVars, histVars, fileVars, mainPc, resume, crashes, cfg, execVars,
                   fwdVars, recChan, recPc, recAfter, next_expected_index,
                   recPending, written, committed, fault>>

\* A library caller drops the future of scan_with_options before it completes
\* (main never does): the executor and its in-flight invocations, the sender and
\* the handle are dropped; the two spawned tasks are detached and keep running.
ScanDropped ==
    /\ entry = "lib"
    /\ recorder
    /\ scanPc \in {"exec", "await"}
    /\ scanPc' = "dropped"
    /\ execPc' = (IF execPc = "done" THEN "done" ELSE "dropped")
    /\ pending' = {}
    /\ senderAlive' = FALSE
    /\ handleAlive' = ~HandleDroppedAt(scanPc')
    /\ UNCHANGED <<inputVars, histVars, fileVars, mainPc, resume, crashes, scanResult,
                   cfg, position, results, execResult, fwdChan, fwdPc, recChan,
                   recPc, recAfter, next_expected_index, recPending, written,
                   committed, fault>>

\* A mutant of AbsoluteIndex: the submission index is passed on as it is.
AbsoluteIndex_NoBase(base_index, index) == index

\* let absolute_index = base_index + index
AbsoluteIndex(base_index, index) == base_index + index

\* The forwarding task receives (index, target, output) and hands it to the
\* recorder with its absolute index; a closed recorder channel ends the task.
FwdRecv ==
    /\ fwdPc = "run"
    /\ fwdChan # <<>>
    /\ LET m == Head(fwdChan)
           absolute_index == AbsoluteIndex(cfg.base_index, m.index)
       IN  IF RecorderGone
           THEN /\ fwdPc' = "err"
                /\ fwdChan' = <<>>
                /\ UNCHANGED recChan
           ELSE /\ recChan' = Append(recChan,
                                     RecordMsg(absolute_index, m.target, m.output))
                /\ fwdChan' = Tail(fwdChan)
                /\ UNCHANGED fwdPc
    /\ UNCHANGED <<inputVars, histVars, fileVars, mainPc, resume, crashes, scanPc,
                   scanResult, cfg, execVars, senderAlive, handleAlive, recPc,
                   recAfter, next_expected_index, recPending, written, committed, fault>>

\* The forwarding channel is closed and empty: the task ends and drops its
\* clone of the RecorderHandle.
FwdClose ==
    /\ fwdPc = "run"
    /\ fwdChan = <<>>
    /\ ~senderAlive
    /\ fwdPc' = "ok"
    /\ UNCHANGED <<inputVars, histVars, fileVars, mainPc, resume, crashes, scanPc,
                   scanResult, cfg, execVars, fwdChan, senderAlive, recVars>>

\* -------------------------------------------------------- scanner/recorder.rs

\* The line "<target>\t<output>\n", tagged with the absolute index it is for.
Line(r) == [idx |-> r.idx, target |-> r.target, output |-> r.output]

\* A mutant of ReadyRecords: every buffered record is ready.
ReadyRecords_Any(buffer, expected) == buffer

\* A mutant of ReadyRecords: the lowest buffered index is taken, expected or not.
ReadyRecords_Lowest(buffer, expected) ==
    {r \in buffer : \A q \in buffer : r.idx <= q.idx}

\* self.pending.remove(&self.next_expected_index)
ReadyRecords(buffer, expected) == {r \in buffer : r.idx = expected}

\* A mutant of AfterCommit: commit_ready returns without looking at the buffer.
AfterCommit_Return(buffer, expected, after) == after

\* Where the recorder goes after a step of commit_ready: the while loop goes on
\* while the expected index is buffered, and then returns to its caller.
AfterCommit(buffer, expected, after) ==
    IF ReadyRecords(buffer, expected) # {} THEN "commit" ELSE after

\* A mutant of IsStale: the index just below the expected one is let through.
IsStale_Strict(index, expected) == index + 1 < expected

\* A mutant of IsStale: no record is discarded.
IsStale_Never(index, expected) == FALSE

\* handle_record: index < self.next_expected_index
IsStale(index, expected) == index < expected

\* A mutant of open_output: the file is always opened for appending.
open_output_Append(file, truncate_output) == file

\* open_output: the content of the output file once it is opened with
\* create and write, and with truncate or with append.
open_output(file, truncate_output) == IF truncate_output THEN <<>> ELSE file

\* ScanRecorder::run: open_output (truncate or append) and the first flush.
RecOpen ==
    /\ recPc = "open"
    /\ outFile' = open_output(outFile, cfg.truncate_output)
    /\ recPc' = "loop"
    /\ UNCHANGED <<inputVars, histVars, ckptFile, outBuf, mainPc, resume, crashes, scanPc,
                   scanResult, cfg, execVars, fwdVars, recChan, handleAlive,
                   recAfter, next_expected_index, recPending, written, committed, fault>>

\* flush_if_due: what was written to the handle reaches the file.
Flushed == outFile \o outBuf

\* finish: receiver.recv() yields a message. A Record goes through
\* handle_record up to the first write of commit_ready; a Flush flushes.
RecRecv ==
    /\ recPc = "loop"
    /\ recChan # <<>>
    /\ LET m == Head(recChan) IN
       /\ recChan' = Tail(recChan)
       /\ IF m.type = "flush"
          THEN /\ outFile' = Flushed
               /\ outBuf' = <<>>
               /\ UNCHANGED <<recPending, recPc, recAfter>>
          ELSE /\ IF IsStale(m.idx, next_expected_index)
                  THEN UNCHANGED <<recPending, recPc, recAfter>>
                  ELSE /\ recPending' =
                            {r \in recPending : r.idx # m.idx} \cup
                            {[idx |-> m.idx, target |-> m.target,
                              output |-> m.output]}
                       /\ recPc' = AfterCommit(recPending', next_expected_index,
                                               "loop")
                       /\ recAfter' = "loop"
               /\ UNCHANGED <<outFile, outBuf>>
    /\ UNCHANGED <<inputVars, histVars, ckptFile, mainPc, resume, crashes, scanPc,
                   scanResult, cfg, execVars, fwdVars, handleAlive,
                   next_expected_index, written, committed, fault>>

\* finish: the flush timer ticks (a tick with nothing to flush changes nothing).
RecTick ==
    /\ recPc = "loop"
    /\ outBuf # <<>>
    /\ outFile' = Flushed
    /\ outBuf' = <<>>
    /\ UNCHANGED <<inputVars, histVars, ckptFile, mainPc, resume, crashes, scanPc,
                   scanResult, cfg, execVars, fwdVars, recVars>>

\* Every sender of the recorder channel is dropped: the handle of
\* RecorderRuntime and the clone the forwarding task holds.
RecChanClosed == ~handleAlive /\ fwdPc # "run"

\* finish: receiver.recv() yields None; the loop is left for the final
\* commit_ready.
RecClosed ==
    /\ recPc = "loop"
    /\ recChan = <<>>
    /\ RecChanClosed
    /\ recPc' = AfterCommit(recPending, next_expected_index, "finish")
    /\ recAfter' = "finish"
    /\ UNCHANGED <<inputVars, histVars, fileVars, mainPc, resume, crashes, scanPc,
                   scanResult, cfg, execVars, fwdVars, recChan, handleAlive,
                   next_expected_index, recPending, written, committed, fault>>

\* commit_ready: the expected record is removed from the buffer and its line is
\* written to the file handle when it has a finding.
RecCommit ==
    /\ recPc = "commit"
    /\ \E r \in ReadyRecords(recPending, next_expected_index) :
          /\ recPending' = recPending \ {r}
          /\ IF HasFinding(r.output)
             THEN /\ outBuf' = Append(outBuf, Line(r))
                  /\ written' = Append(written, r.idx)
             ELSE UNCHANGED <<outBuf, written>>
    /\ committed' = committed + 1
    /\ recPc' = "ckpt"
    /\ UNCHANGED <<inputVars, histVars, ckptFile, outFile, mainPc, resume, crashes,
                   scanPc, scanResult, cfg, execVars, fwdVars, recChan,
                   handleAlive, recAfter, next_expected_index, fault>>

\* commit_ready: next_expected_index is incremented and the checkpoint file is
\* rewritten; then the loop goes on or returns.
RecCkpt ==
    /\ recPc = "ckpt"
    /\ next_expected_index' = next_expected_index + 1
    /\ ckptFile' = checkpoint_template(next_expected_index')
    /\ recPc' = AfterCommit(recPending, next_expected_index', recAfter)
    /\ UNCHANGED <<inputVars, histVars, outFile, outBuf, mainPc, resume, crashes, scanPc,
                   scanResult, cfg, execVars, fwdVars, recChan, handleAlive,
                   recAfter, recPending, written, committed, fault>>

\* finish after the loop: the final flush, and the checkpoint is removed when
\* every target of the run is committed. The task ends; its receiver and its
\* reorder buffer are dropped.
RecFinish ==
    /\ recPc = "finish"
    /\ outFile' = Flushed
    /\ outBuf' = <<>>
    /\ LET final_index == cfg.base_index + cfg.total_targets
       IN  ckptFile' = (IF next_expected_index >= final_index THEN NoCkpt
                        ELSE ckptFile)
    /\ recPc' = "ok"
    /\ recChan' = <<>>
    /\ recPending' = {}
    /\ UNCHANGED <<inputVars, histVars, mainPc, resume, crashes, scanPc, scanResult, cfg,
                   execVars, fwdVars, handleAlive, recAfter,
                   next_expected_index, written, committed, fault>>

\* A mutant of IndexAfterFailure: the index is incremented before any failure.
IndexAfterFailure_Always(pc, expected) == expected + 1

\* next_expected_index when an I/O operation fails at pc: commit_ready has
\* incremented it before write_checkpoint, and not before the write of the line.
IndexAfterFailure(pc, expected) == IF pc = "ckpt" THEN expected + 1 ELSE expected

\* An I/O operation of the recorder fails (open, write_all, flush,
\* write_checkpoint, remove_checkpoint): the `?` returns the error, the task
\* ends, and its receiver and its reorder buffer are dropped.
RecIoFail ==
    /\ \/ recPc \in {"open", "loop", "ckpt", "finish"}
       \/ /\ recPc = "commit"
          /\ \E r \in ReadyRecords(recPending, next_expected_index) :
                HasFinding(r.output)
    /\ recPc' = "err"
    /\ fault' = TRUE
    /\ recChan' = <<>>
    /\ next_expected_index' = IndexAfterFailure(recPc, next_expected_index)
    /\ recPending' = {}
    /\ recAfter' = "loop"
    /\ UNCHANGED <<inputVars, histVars, fileVars, mainPc, resume, crashes, scanPc,
                   scanResult, cfg, execVars, fwdVars, handleAlive, written,
                   committed>>

\* ------------------------------------------------------------- the process

\* write_checkpoint is fs::write: the file is created or truncated and then
\* written. The contents a kill can leave when the recorder is at pc: the file
\* as it was (the kill comes before the call, or after it when pc is past it),
\* or, inside the call, an empty file, which from_str does not accept.
KilledCheckpoint(file, pc) == IF pc = "ckpt" THEN {file, NoCkpt} ELSE {file}

\* The process of the scan command is killed (a crash, an interrupt) and the
\* command is started again. What was written to the output handle and not
\* flushed reaches the file up to some point; a kill inside write_checkpoint
\* can leave the checkpoint file empty.
Crash ==
    /\ entry = "cli"
    /\ mainPc = "scanning"
    /\ crashes < MaxCrashes
    /\ crashes' = crashes + 1
    /\ \E k \in 0..Len(outBuf) : outFile' = outFile \o SubSeq(outBuf, 1, k)
    /\ outBuf' = <<>>
    /\ mainPc' = "init"
    /\ scanPc' = "idle"
    /\ scanResult' = NoResult
    /\ cfg' = NoCfg
    /\ execPc' = "idle"
    /\ position' = 0
    /\ pending' = {}
    /\ results' = <<>>
    /\ execResult' = NoResult
    /\ fwdChan' = <<>>
    /\ senderAlive' = FALSE
    /\ fwdPc' = "none"
    /\ recChan' = <<>>
    /\ handleAlive' = FALSE
    /\ recPc' = "none"
    /\ recAfter' = "loop"
    /\ next_expected_index' = 0
    /\ recPending' = {}
    /\ written' = <<>>
    /\ committed' = 0
    /\ fault' = FALSE
    /\ resume' = FALSE
    /\ ckptFile' \in KilledCheckpoint(ckptFile, recPc)
    /\ LET at == IF ckptFile'.present THEN ckptFile'.next_index ELSE 0
       IN  crashNext' = (IF crashNext = -1 THEN at ELSE Min(crashNext, at))
    /\ UNCHANGED <<inputVars, request, atStart, callerSent>>

MainStep == (\E r \in BOOLEAN, req \in Requests : MainStart(r, req)) \/ MainExit

ScanStep == ScanStart \/ ScanFinalize \/ ScanReturn

ExecStep == ExecStart \/ (\E i \in 0..(MaxTargets - 1) : ExecComplete(i))

FwdStep == FwdRecv \/ FwdClose

RecStep == RecOpen \/ RecRecv \/ RecTick \/ RecClosed \/ RecCommit \/ RecCkpt
           \/ RecFinish

\* The steps of the program itself, without the faults of its environment.
Program == MainStep \/ ScanStep \/ ExecStep \/ FwdStep \/ RecStep

Next ==
    \/ \E r \in BOOLEAN, req \in Requests : MainStart(r, req)
    \/ MainExit
    \/ ScanStart
    \/ ScanFinalize
    \/ ScanReturn
    \/ ScanDropped
    \/ ExecStart
    \/ \E i \in 0..(MaxTargets - 1) : ExecComplete(i)
    \/ FwdRecv
    \/ FwdClose
    \/ RecOpen
    \/ RecRecv
    \/ RecTick
    \/ RecClosed
    \/ RecCommit
    \/ RecCkpt
    \/ RecFinish
    \/ RecIoFail
    \/ Crash

Spec == Init /\ [][Next]_vars

\* ------------------------------------------- a caller of scanner/checkpoint.rs

\* Largest number of chunks a checkpoint file is put together from.
MaxChunks == 5

scanVars == <<entry, recorder, targetsFile, probeOut, threads, fileVars, mainPc,
              resume, crashes, scanPc, scanResult, cfg, execVars, fwdVars,
              recVars, histVars>>

\* No scan is running.
ScanOff ==
    /\ entry = "none"
    /\ recorder = FALSE
    /\ targetsFile = <<>>
    /\ probeOut = <<>>
    /\ threads = 0
    /\ ckptFile = NoCkpt
    /\ outFile = <<>>
    /\ outBuf = <<>>
    /\ mainPc = "none"
    /\ resume = FALSE
    /\ crashes = 0
    /\ scanPc = "idle"
    /\ scanResult = NoResult
    /\ cfg = NoCfg
    /\ execPc = "idle"
    /\ position = 0
    /\ pending = {}
    /\ results = <<>>
    /\ execResult = NoResult
    /\ fwdChan = <<>>
    /\ senderAlive = FALSE
    /\ fwdPc = "none"
    /\ recChan = <<>>
    /\ handleAlive = FALSE
    /\ recPc = "none"
    /\ recAfter = "loop"
    /\ next_expected_index = 0
    /\ recPending = {}
    /\ written = <<>>
    /\ committed = 0
    /\ fault = FALSE
    /\ crashNext = -1
    /\ request = FirstRequest
    /\ atStart = [ckpt |-> NoCkpt, out |-> <<>>]
    /\ callerSent = <<>>

\* The path and mode texts of the checkpoints written: plain, empty, with
\* surrounding whitespace, with "=", with a line break.
PathTexts ==
    {<<"p">>, <<>>, <<"p", " ">>, <<" ", "p">>, <<"p", "=", "q">>,
     <<"p", "\n", "mode", "=", "x">>}

Checkpoints ==
    {Checkpoint(n, t, o, m) :
        n \in {0, 7, 12}, t \in PathTexts, o \in {<<"o">>, <<"o", "\r">>},
        m \in {ModeArg}}

\* The chunks the file contents are put together from: lines of the four
\* keys, a value that is no number, padded and CRLF lines, a line without
\* "=", an unknown key, bytes that are not UTF-8, a last line without "\n".
ChunkPool ==
    {KeyNextIndex \o <<"=", "1", "\n">>,
     KeyNextIndex \o <<"=", "x", "\n">>,
     KeyTargets \o <<"=", "t", "\n">>,
     KeyOutput \o <<"=", "o", "\n">>,
     KeyMode \o <<"=", "m", "\n">>,
     <<" ">> \o KeyMode \o <<" ", "=", " ", "m", " ", "\r", "\n">>,
     <<"j", "u", "n", "k", "\n">>,
     <<"other", "=", "z", "\n">>,
     <<InvalidByte, "\n">>,
     KeyNextIndex \o <<"=", "+", "2">>}

RECURSIVE Flatten(_)
Flatten(chunks) ==
    IF chunks = <<>> THEN <<>> ELSE Head(chunks) \o Flatten(Tail(chunks))

FileContents ==
    {Flatten(cs) : cs \in UNION {[1..k -> ChunkPool] : k \in 0..MaxChunks}}

InitCheckpoint ==
    /\ ScanOff
    /\ TmIdle
    /\ TsIdle
    /\ PsIdle
    /\ \/ /\ ckIn \in Checkpoints
          /\ ckBytes = NoFile
       \/ /\ ckIn = NoCkpt
          /\ ckBytes \in {[exists |-> TRUE, bytes |-> b] : b \in FileContents}
    /\ ckRead = Unread

\* write_checkpoint: fs::write replaces the file by to_string.
WriteCheckpoint ==
    /\ ckIn.present
    /\ ckRead = Unread
    /\ ckBytes = NoFile
    /\ ckBytes' = [exists |-> TRUE, bytes |-> to_string(ckIn)]
    /\ UNCHANGED <<scanVars, psVars, tmVars, tsVars, ckIn, ckRead>>

\* remove_checkpoint
RemoveCheckpoint ==
    /\ ckBytes.exists
    /\ ckRead = Unread
    /\ ~ckIn.present
    /\ ckBytes' = NoFile
    /\ UNCHANGED <<scanVars, psVars, tmVars, tsVars, ckIn, ckRead>>

ReadCheckpoint ==
    /\ ckRead = Unread
    /\ ckRead' = read_checkpoint(ckBytes)
    /\ UNCHANGED <<scanVars, psVars, tmVars, tsVars, ckIn, ckBytes>>

NextCheckpoint == WriteCheckpoint \/ RemoveCheckpoint \/ ReadCheckpoint

SpecCheckpoint == InitCheckpoint /\ [][NextCheckpoint]_vars

\* ---------------------------------------------------- modules/trailmerge/mod.rs

\* Largest number of protocols detect_protocol returns.
MaxProtocols == 2

\* The target handed to the probe.
ProbeTarget == "http://example"

\* A response of the HTTP engine: a status, or a ProtocolError.
Status(code) == [ok |-> TRUE, status |-> code, err |-> ""]
Failure(err) == [ok |-> FALSE, status |-> 0, err |-> err]

\* The kinds of ProtocolError told apart: Timeout, InvalidTarget and the rest
\* (connection refused, TLS failure, decoding error, ...).
ProtocolErrors == {"Timeout", "InvalidTarget", "Io"}

\* The statuses and errors the engine answers with.
MergeResponses ==
    {Status(code) : code \in {100, 200, 502, 503, 504}}
        \cup {Failure(err) : err \in ProtocolErrors}

\* DetectedProtocol: the protocol (as Display prints it) and the optional port.
NoPort == [some |-> FALSE, value |-> 0]
SomePort(value) == [some |-> TRUE, value |-> value]

DetectedProtocols ==
    {[protocol |-> proto, port |-> port] :
        proto \in {"HTTP/1.1", "HTTP/2"}, port \in {NoPort, SomePort(8443)}}

\* {:?} of Option<u16>
DebugPort(port) ==
    IF port.some THEN <<"Some(">> \o ToDecimal(port.value) \o <<")">>
    ELSE <<"None">>

\* An Option<String>.
NoText == [some |-> FALSE, text |-> <<>>]
SomeText(text) == [some |-> TRUE, text |-> text]

\* TrailMergeTask::interpret_status
interpret_status(detected, status, target) ==
    IF status = 100
    THEN SomeText(<<"[!+] got expect!", " ", detected.protocol, " ", target,
                    " ">> \o DebugPort(detected.port))
    ELSE IF status = 504
    THEN SomeText(<<"[+] gateway timeout!", " ", detected.protocol, " ", target,
                    " ">> \o DebugPort(detected.port))
    ELSE NoText

\* findings.join("\n")
RECURSIVE Join(_)
Join(texts) ==
    IF texts = <<>> THEN <<>>
    ELSE IF Len(texts) = 1 THEN Head(texts)
    ELSE Head(texts) \o <<"\n">> \o Join(Tail(texts))

ReturnOk(findings) == [kind |-> "ok", text |-> Join(findings), err |-> ""]
ReturnErr(err) == [kind |-> "err", text |-> <<>>, err |-> err]

InitTrailMerge ==
    /\ ScanOff
    /\ CkIdle
    /\ TsIdle
    /\ PsIdle
    /\ tmPc = "detect"
    /\ tmDetected \in UNION {[1..k -> DetectedProtocols] : k \in 0..MaxProtocols}
    /\ tmIndex = 0
    /\ tmFindings = <<>>
    /\ tmOut = NoOut
    /\ tmLog = <<>>

\* execute: detect_protocol(&target).await? fails with err or, with err = "",
\* yields tmDetected.
TmDetect(err) ==
    /\ tmPc = "detect"
    /\ IF err # ""
       THEN /\ tmPc' = "done"
            /\ tmOut' = ReturnErr(err)
            /\ UNCHANGED tmIndex
       ELSE IF tmDetected = <<>>
       THEN /\ tmPc' = "done"
            /\ tmOut' = ReturnOk(<<>>)
            /\ UNCHANGED tmIndex
       ELSE /\ tmPc' = "baseline"
            /\ tmIndex' = 1
            /\ UNCHANGED tmOut
    /\ UNCHANGED <<scanVars, psVars, ckVars, tsVars, tmDetected, tmFindings, tmLog>>

\* scan_protocol has returned for the current protocol with these findings:
\* the for loop of execute takes the next protocol or execute returns.
TmNextProtocol(findings) ==
    /\ tmFindings' = findings
    /\ IF tmIndex < Len(tmDetected)
       THEN /\ tmIndex' = tmIndex + 1
            /\ tmPc' = "baseline"
            /\ UNCHANGED tmOut
       ELSE /\ tmPc' = "done"
            /\ tmOut' = ReturnOk(findings)
            /\ UNCHANGED tmIndex

\* execute returns Err(err) for an InvalidTarget error of scan_protocol.
TmReturnErr ==
    /\ tmPc' = "done"
    /\ tmOut' = ReturnErr("InvalidTarget")
    /\ UNCHANGED <<tmIndex, tmFindings>>

TmLogged(sent, resp, counted) ==
    Append(tmLog, [index |-> tmIndex, request |-> sent, resp |-> resp,
                   counted |-> counted])

\* scan_protocol: the baseline request is answered.
TmBaseline(resp) ==
    /\ tmPc = "baseline"
    /\ LET detected == tmDetected[tmIndex]
           finding == IF resp.ok
                      THEN interpret_status(detected, resp.status, ProbeTarget)
                      ELSE NoText
       IN  /\ tmLog' = TmLogged("baseline", resp, finding.some)
           /\ IF resp.ok
              THEN IF finding.some
                   THEN TmNextProtocol(tmFindings)
                   ELSE /\ tmPc' = "expect"
                        /\ UNCHANGED <<tmIndex, tmFindings, tmOut>>
              ELSE IF resp.err = "InvalidTarget"
                   THEN TmReturnErr
                   ELSE \* Timeout is Ok(None); another error is swallowed
                        TmNextProtocol(tmFindings)
    /\ UNCHANGED <<scanVars, psVars, ckVars, tsVars, tmDetected>>

\* scan_protocol: the expect request is answered.
TmExpect(resp) ==
    /\ tmPc = "expect"
    /\ LET detected == tmDetected[tmIndex]
           got == resp.ok /\ resp.status = 100
       IN  /\ tmLog' = TmLogged("expect", resp, got)
           /\ IF got
              THEN TmNextProtocol(Append(tmFindings,
                        <<"[!+] got expect!", " ", detected.protocol, " ",
                          ProbeTarget, " ">> \o DebugPort(detected.port)))
              ELSE /\ tmPc' = "attack"
                   /\ UNCHANGED <<tmIndex, tmFindings, tmOut>>
    /\ UNCHANGED <<scanVars, psVars, ckVars, tsVars, tmDetected>>

\* scan_protocol: the attack request is answered.
TmAttack(resp) ==
    /\ tmPc = "attack"
    /\ LET detected == tmDetected[tmIndex]
           finding == IF resp.ok
                      THEN interpret_status(detected, resp.status, ProbeTarget)
                      ELSE NoText
       IN  /\ tmLog' = TmLogged("attack", resp, finding.some)
           /\ IF resp.ok
              THEN TmNextProtocol(IF finding.some
                                  THEN Append(tmFindings, finding.text)
                                  ELSE tmFindings)
              ELSE IF resp.err = "Timeout"
                   THEN TmNextProtocol(Append(tmFindings,
                            <<"[!] timeout", " ", detected.protocol, " ",
                              ProbeTarget>>))
                   ELSE IF resp.err = "InvalidTarget"
                        THEN TmReturnErr
                        ELSE TmNextProtocol(tmFindings)
    /\ UNCHANGED <<scanVars, psVars, ckVars, tsVars, tmDetected>>

NextTrailMerge ==
    \/ \E err \in ProtocolErrors \cup {""} : TmDetect(err)
    \/ \E resp \in MergeResponses : TmBaseline(resp)
    \/ \E resp \in MergeResponses : TmExpect(resp)
    \/ \E resp \in MergeResponses : TmAttack(resp)

SpecTrailMerge == InitTrailMerge /\ [][NextTrailMerge]_vars

\* ----------------------------------------------------- modules/trailsmug/mod.rs

\* Number of attack payloads sent to one target.
MaxPayloads == 2

\* One raw request of build_attack_requests: request line, the Connection
\* header, the Upgrade header (folded over a line break and a tab, or not)
\* and the smuggled data.
Payload(method, connection, folded) ==
    <<method, " ", "{path} HTTP/1.1", "\r", "\n",
      "Connection: ", connection, "\r", "\n",
      "Upgrade:">>
        \o (IF folded THEN <<"\r", "\n", "\t">> ELSE <<" ">>)
        \o <<"h2c,websocket", "\r", "\n", "\r", "\n", "{smug}">>

\* build_attack_requests: the five payloads, in the order they are pushed.
SmugPayloads ==
    << Payload("GET", "upgrade", TRUE),
       Payload("HEAD", "keep-alive", TRUE),
       Payload("OPTIONS", "upgrade", TRUE),
       Payload("GET", "upgrade", FALSE),
       Payload("OPTIONS", "upgrade", FALSE) >>

\* A mutant of SkippedBaseline: the gateway errors are not in the list.
SkippedBaseline_NoGateway == {301, 302, 307, 308, 400, 403, 404, 408, 429}

\* Baseline statuses for which the target is skipped.
SkippedBaseline == {301, 302, 307, 308, 400, 403, 404, 408, 429, 502, 503, 504}

\* Statuses of a baseline re-check that are ignored.
IgnoredRecheck == {403, 409, 420, 429, 502, 503}

\* let probes = 2
probes == 2

\* The answers of the structured client and of send_raw.
BaselineResponses ==
    {Status(code) : code \in {200, 301, 302, 307, 308, 400, 403, 404, 408,
                              429, 500, 502, 503, 504}}
        \cup {Failure(err) : err \in ProtocolErrors}
RecheckResponses ==
    {Status(200), Status(500), Status(403), Status(503), Failure("Io")}

\* A mutant of Divergent: the ignore set is not consulted.
Divergent_NoIgnore(status, baseline) == status # baseline

\* res.status != baseline_res.status && ![403, ...].contains(&res.status)
Divergent(status, baseline) ==
    status # baseline /\ status \notin IgnoredRecheck

\* format!("[!] {} resp difference: baseline {} curr {} payload {}", ...)
DifferenceText(target, baseline, curr, req) ==
    <<"[!]", " ", target, " ", "resp difference: baseline", " ">>
        \o ToDecimal(baseline) \o <<" ", "curr", " ">> \o ToDecimal(curr)
        \o <<" ", "payload", " ">> \o req

InitTrailSmug ==
    /\ ScanOff
    /\ CkIdle
    /\ TmIdle
    /\ PsIdle
    /\ tsPc = "build"
    /\ tsAttacks \in {SubSeq(SmugPayloads, 1, k) : k \in 1..MaxPayloads}
    /\ tsBaseline = 0
    /\ tsPayload = 0
    /\ tsIter = 0
    /\ tsDiff = FALSE
    /\ tsFindings = <<>>
    /\ tsOut = NoOut
    /\ tsLog = <<>>

TsLogged(sent, resp) ==
    Append(tsLog, [payload |-> tsPayload, iter |-> tsIter, request |-> sent,
                   resp |-> resp])

TsReturn(out) ==
    /\ tsPc' = "done"
    /\ tsOut' = out

\* execute: build_attack_requests(&target) succeeds or not.
TsBuild(ok) ==
    /\ tsPc = "build"
    /\ IF ok
       THEN /\ tsPc' = "baseline"
            /\ UNCHANGED tsOut
       ELSE TsReturn(ReturnOk(<<>>))
    /\ UNCHANGED <<scanVars, psVars, ckVars, tmVars, tsAttacks, tsBaseline, tsPayload,
                   tsIter, tsDiff, tsFindings, tsLog>>

\* execute: the first baseline request is answered.
TsBaseline(resp) ==
    /\ tsPc = "baseline"
    /\ tsLog' = TsLogged("baseline", resp)
    /\ IF ~resp.ok \/ resp.status \in SkippedBaseline
       THEN /\ TsReturn(ReturnOk(<<>>))
            /\ UNCHANGED <<tsBaseline, tsPayload>>
       ELSE /\ tsBaseline' = resp.status
            /\ tsPayload' = 1
            /\ tsPc' = "raw"
            /\ UNCHANGED tsOut
    /\ UNCHANGED <<scanVars, psVars, ckVars, tmVars, tsAttacks, tsIter, tsDiff,
                   tsFindings>>

\* execute: client.send_raw(&target, req).await? for the current payload.
TsSendRaw(ok) ==
    /\ tsPc = "raw"
    /\ tsLog' = TsLogged("raw", IF ok THEN Status(0) ELSE Failure("Io"))
    /\ IF ok
       THEN /\ tsPc' = "recheck"
            /\ UNCHANGED tsOut
       ELSE TsReturn(ReturnErr("Io"))
    /\ UNCHANGED <<scanVars, psVars, ckVars, tmVars, tsAttacks, tsBaseline, tsPayload,
                   tsIter, tsDiff, tsFindings>>

\* The inner loop is left (break, or its last iteration ended): the outer
\* loop takes the next payload, or execute returns the findings.
TsNextPayload(findings) ==
    /\ tsFindings' = findings
    /\ tsIter' = 0
    /\ tsDiff' = FALSE
    /\ IF tsPayload < Len(tsAttacks)
       THEN /\ tsPayload' = tsPayload + 1
            /\ tsPc' = "raw"
            /\ UNCHANGED tsOut
       ELSE /\ TsReturn(ReturnOk(findings))
            /\ UNCHANGED tsPayload

\* execute: the baseline request sent after the raw payload is answered;
\* the 2 s sleep that ends an iteration is part of the step.
TsRecheck(resp) ==
    /\ tsPc = "recheck"
    /\ tsLog' = TsLogged("recheck", resp)
    /\ IF ~resp.ok
       THEN /\ TsReturn(ReturnOk(tsFindings))
            /\ UNCHANGED <<tsPayload, tsIter, tsDiff, tsFindings>>
       ELSE IF Divergent(resp.status, tsBaseline)
       THEN IF tsIter # probes - 1
            THEN /\ tsDiff' = TRUE
                 /\ tsIter' = tsIter + 1
                 /\ tsPc' = "raw"
                 /\ UNCHANGED <<tsPayload, tsFindings, tsOut>>
            ELSE IF tsDiff
            THEN TsNextPayload(Append(tsFindings,
                    DifferenceText(ProbeTarget, tsBaseline, resp.status,
                                   tsAttacks[tsPayload])))
            ELSE TsNextPayload(tsFindings)
       ELSE TsNextPayload(tsFindings)
    /\ UNCHANGED <<scanVars, psVars, ckVars, tmVars, tsAttacks, tsBaseline>>

NextTrailSmug ==
    \/ \E ok \in BOOLEAN : TsBuild(ok)
    \/ \E resp \in BaselineResponses : TsBaseline(resp)
    \/ \E ok \in BOOLEAN : TsSendRaw(ok)
    \/ \E resp \in RecheckResponses : TsRecheck(resp)

SpecTrailSmug == InitTrailSmug /\ [][NextTrailSmug]_vars

\* ------------------------- scanner/executor.rs polling modules/trailsmug/mod.rs

\* Largest number of steps of the spawned tasks that is followed.
MaxSpawnedSteps == 2

\* An invocation of TrailSmugTask::execute that has passed its baseline gate.
Started == [pc |-> "raw", payload |-> 1, iter |-> 0]

\* execute has pushed between one and Concurrency(threads) futures into
\* pending; the forwarding and the recorder task run as spawned tasks.
InitPause ==
    /\ ScanOff
    /\ CkIdle
    /\ TmIdle
    /\ TsIdle
    /\ psPending \in {[i \in 1..n |-> Started] : n \in 1..MaxThreads}
    /\ psSleeping = 0
    /\ psSpawned = 0

\* The thread that runs execute polls the futures of pending one at a time:
\* it can poll one only while it is not inside a call that blocks it.
ThreadFree == psSleeping = 0

\* The inner loop of invocation i is left: the next payload, or the return.
PsNextPayload(i) ==
    IF psPending[i].payload < MaxPayloads
    THEN [pc |-> "raw", payload |-> psPending[i].payload + 1, iter |-> 0]
    ELSE [psPending[i] EXCEPT !.pc = "done"]

\* Invocation i is polled after its send_raw completed.
PsSendRaw(i, ok) ==
    /\ ThreadFree
    /\ psPending[i].pc = "raw"
    /\ psPending' = [psPending EXCEPT ![i].pc = IF ok THEN "recheck" ELSE "done"]
    /\ UNCHANGED <<scanVars, ckVars, tmVars, tsVars, psSleeping, psSpawned>>

\* Invocation i is polled after its baseline re-check completed: it returns
\* on an error, breaks on a status that does not count, and otherwise goes
\* on to thread::sleep(2000 ms) without leaving the poll.
PsRecheck(i, outcome) ==
    /\ ThreadFree
    /\ psPending[i].pc = "recheck"
    /\ IF outcome = "err"
       THEN /\ psPending' = [psPending EXCEPT ![i].pc = "done"]
            /\ UNCHANGED psSleeping
       ELSE IF outcome = "differs"
       THEN /\ psPending' = [psPending EXCEPT ![i].pc = "sleep"]
            /\ psSleeping' = i
       ELSE /\ psPending' = [psPending EXCEPT ![i] = PsNextPayload(i)]
            /\ UNCHANGED psSleeping
    /\ UNCHANGED <<scanVars, ckVars, tmVars, tsVars, psSpawned>>

\* thread::sleep of invocation i returns: the next iteration or payload
\* starts and the invocation suspends at its send_raw.
PsWake(i) ==
    /\ psSleeping = i
    /\ psSleeping' = 0
    /\ psPending' =
          [psPending EXCEPT ![i] =
              IF psPending[i].iter # probes - 1
              THEN [pc |-> "raw", payload |-> psPending[i].payload,
                    iter |-> psPending[i].iter + 1]
              ELSE PsNextPayload(i)]
    /\ UNCHANGED <<scanVars, ckVars, tmVars, tsVars, psSpawned>>

\* A task started with tokio::spawn (forwarding, recorder) takes a step on a
\* worker thread of the runtime.
PsSpawnedStep ==
    /\ psSpawned < MaxSpawnedSteps
    /\ psSpawned' = psSpawned + 1
    /\ UNCHANGED <<scanVars, ckVars, tmVars, tsVars, psPending, psSleeping>>

\* A step of invocation i other than the return of its sleep.
PsStep(i) ==
    \/ \E ok \in BOOLEAN : PsSendRaw(i, ok)
    \/ \E outcome \in {"differs", "same", "err"} : PsRecheck(i, outcome)

NextPause ==
    \/ \E i \in 1..Len(psPending), ok \in BOOLEAN : PsSendRaw(i, ok)
    \/ \E i \in 1..Len(psPending), outcome \in {"differs", "same", "err"} :
          PsRecheck(i, outcome)
    \/ \E i \in 1..Len(psPending) : PsWake(i)
    \/ PsSpawnedStep

SpecPause == InitPause /\ [][NextPause]_vars

\* ------------------------------------- a caller of scanner/recorder.rs

\* Largest number of messages the caller sends through its RecorderHandle.
MaxMessages == 3

\* A line an earlier run left in the output file.
OldLine == [idx |-> -1, target |-> "old", output |-> <<"h", "i", "t">>]

\* The configurations handed to ScanRecorder::new.
RecorderConfigs ==
    {[base_index |-> b, total_targets |-> n, truncate_output |-> t,
      targets_path |-> TargetsArg, output_path |-> OutputArg, mode |-> ModeArg] :
        b \in {0, 1}, n \in {1, 2}, t \in BOOLEAN}

\* The messages the caller sends: any index, stale and repeated ones included.
CallerMessages ==
    {RecordMsg(i, TargetPool[i + 1], o) :
        i \in 0..MaxMessages, o \in {<<>>, <<"h", "i", "t">>}}

\* ScanRecorder::new(cfg) has returned and recorder.run(receiver) is spawned;
\* the caller holds the only RecorderHandle. As main does before it starts a
\* scan, the caller has written the checkpoint for base_index.
InitRecorder ==
    /\ entry = "recorder"
    /\ recorder = TRUE
    /\ targetsFile = <<>>
    /\ probeOut = <<>>
    /\ threads = 0
    /\ cfg \in RecorderConfigs
    /\ ckptFile = Checkpoint(cfg.base_index, cfg.targets_path, cfg.output_path,
                            cfg.mode)
    /\ outFile \in {<<>>, <<OldLine>>}
    /\ outBuf = <<>>
    /\ mainPc = "none"
    /\ resume = FALSE
    /\ crashes = 0
    /\ scanPc = "idle"
    /\ scanResult = NoResult
    /\ execPc = "idle"
    /\ position = 0
    /\ pending = {}
    /\ results = <<>>
    /\ execResult = NoResult
    /\ fwdChan = <<>>
    /\ senderAlive = FALSE
    /\ fwdPc = "none"
    /\ recChan = <<>>
    /\ handleAlive = TRUE
    /\ recPc = "open"
    /\ recAfter = "loop"
    /\ next_expected_index = cfg.base_index
    /\ recPending = {}
    /\ written = <<>>
    /\ committed = 0
    /\ fault = FALSE
    /\ crashNext = -1
    /\ request = FirstRequest
    /\ atStart = [ckpt |-> ckptFile, out |-> outFile]
    /\ callerSent = <<>>
    /\ CkIdle
    /\ TmIdle
    /\ TsIdle
    /\ PsIdle

\* RecorderHandle::record / request_flush: the message is sent, or the send
\* fails with ChannelClosed when the recorder task has ended.
CallerSend(m) ==
    /\ entry = "recorder"
    /\ handleAlive
    /\ Len(callerSent) < MaxMessages
    /\ callerSent' = Append(callerSent, m)
    /\ recChan' = (IF RecorderGone THEN recChan ELSE Append(recChan, m))
    /\ UNCHANGED <<inputVars, fileVars, crashNext, request, atStart, mainPc,
                   resume, crashes, scanPc, scanResult, cfg, execVars, fwdVars,
                   handleAlive, recPc, recAfter, next_expected_index,
                   recPending, written, committed, fault>>

\* The caller drops its RecorderHandle: the channel closes.
CallerDrop ==
    /\ entry = "recorder"
    /\ handleAlive
    /\ handleAlive' = FALSE
    /\ UNCHANGED <<inputVars, histVars, fileVars, mainPc, resume, crashes, scanPc,
                   scanResult, cfg, execVars, fwdVars, recChan, recPc, recAfter,
                   next_expected_index, recPending, written, committed, fault>>

NextRecorder ==
    \/ \E m \in CallerMessages \cup {FlushMsg} : CallerSend(m)
    \/ CallerDrop
    \/ RecOpen
    \/ RecRecv
    \/ RecTick
    \/ RecClosed
    \/ RecCommit
    \/ RecCkpt
    \/ RecFinish
    \/ RecIoFail

SpecRecorder == InitRecorder /\ [][NextRecorder]_vars

\* ------------------------------------------------------------------ claims

\* What the wrapped or bare task returns for the target with file index i, read
\* off the probe's input table.
ExpectedOutput(i) ==
    IF probeOut[i + 1] = ProbeErr THEN <<>> ELSE probeOut[i + 1]

\* The vector [(T[i], probe(T[i]))] over the targets handed to the scan.
ExpectedVector ==
    [k \in 1..NumScan |->
        <<targetsFile[cfg.base_index + k],
          ExpectedOutput(cfg.base_index + k - 1)>>]

\* C1: whatever order the probes complete in, the vector returned by execute
\* and by scan_with_options has one element per target, the i-th being
\* (T[i], probe output for T[i]).
C1_OrderPreservation ==
    /\ execResult.kind = "ok" =>
          /\ Len(execResult.value) = NumScan
          /\ execResult.value = ExpectedVector
    /\ scanResult.kind = "ok" =>
          /\ Len(scanResult.value) = NumScan
          /\ scanResult.value = ExpectedVector

\* C1 witness: a scan has returned its vector although the probes completed
\* out of submission order.
C1_Witness ==
    /\ scanResult.kind = "ok"
    /\ execResult.kind = "ok"
    /\ Len(results) >= 3
    /\ results[1].index > results[2].index

\* C2: the number of invocations started and not completed is at most
\* N = max(concurrency, 1).
C2_BoundedConcurrency ==
    Cardinality(pending) <= (IF threads >= 1 THEN threads ELSE 1)

\* C2 witness: the pool is full again after a completion pulled the next target.
C2_Witness ==
    /\ execPc = "wait"
    /\ threads = 2
    /\ Cardinality(pending) = 2
    /\ position = 3

\* The lines of the output file for absolute index i.
LinesFor(file, i) == {k \in 1..Len(file) : file[k].idx = i}

\* The absolute indices whose probe output is a finding (non-empty after trim).
FindingIndices == {i \in 0..(NumTargets - 1) : HasFinding(ExpectedOutput(i))}

\* C3: with a recorder configured, every probe terminating and no I/O error,
\* scan_with_options returns: until it has, some step of the program is possible.
C3_ScanTerminates ==
    (entry = "cli" /\ mainPc = "scanning" /\ ~fault) => ENABLED Program

\* C4: after a scan with a recorder in which every probe completed and no
\* persistence error occurred, the checkpoint file does not exist once the scan
\* has nothing left to do.
C4_CheckpointRemoved ==
    (/\ recorder
     /\ scanPc \in {"exec", "await", "returned"}
     /\ execResult.kind = "ok"
     /\ ~fault
     /\ ~ENABLED Program) => ~ckptFile.present

\* C5: during a scan run, from the initial checkpoint main writes through every
\* rewrite by the recorder, the next_index stored in the checkpoint file never
\* decreases.
C5_CheckpointMonotone ==
    [][(ckptFile.present /\ ckptFile'.present /\ mainPc # "init")
          => ckptFile'.next_index >= ckptFile.next_index]_vars

\* C5 witness: the recorder of a resumed run has rewritten the checkpoint above
\* the initial checkpoint of that run.
C5_Witness ==
    /\ entry = "cli"
    /\ resume
    /\ cfg.base_index > 0
    /\ ckptFile.present
    /\ ckptFile.next_index > cfg.base_index

\* C6: the checkpoint never advances past an index whose non-empty finding is
\* not durably in the output file: when the process is killed, every finding
\* below the checkpoint's next_index is in the file.
C6_WriteBeforeCheckpoint ==
    (entry = "cli" /\ mainPc = "init" /\ crashes > 0 /\ ckptFile.present) =>
        \A i \in FindingIndices :
            i < ckptFile.next_index => LinesFor(outFile, i) # {}

\* The highest absolute index written to the output stream by this process.
HighestWritten == CHOOSE m \in {written[k] : k \in 1..Len(written)} :
                     \A k \in 1..Len(written) : written[k] <= m

\* C7 as stated: the checkpoint's next_index is at most the highest absolute
\* index whose finding the recorder has written to the output stream.
C7_DurabilityBound_Original ==
    (recPc # "none" /\ ckptFile.present /\ written # <<>>) =>
        ckptFile.next_index <= HighestWritten

\* C7 amended: every index of this run below the checkpoint's next_index whose
\* output is a finding has had its line written to the output stream (not
\* necessarily flushed); next_index itself is one past the last of them.
C7_DurabilityBound ==
    (recPc # "none" /\ ckptFile.present) =>
        \A i \in FindingIndices :
            (cfg.base_index <= i /\ i < ckptFile.next_index) =>
                \E k \in 1..Len(written) : written[k] = i

\* C7 witness: the checkpoint stands one past a finding the recorder has written.
C7_Witness ==
    /\ recPc # "none"
    /\ ckptFile.present
    /\ written # <<>>
    /\ ckptFile.next_index = HighestWritten + 1

\* C8: the lines the recorder appends during a run are in strictly increasing
\* absolute-index order, one line at most per index.
C8_IndexOrderedOutput ==
    \A j, k \in 1..Len(written) : j < k => written[j] < written[k]

\* C8 witness: two lines are written although the later index completed first.
C8_Witness ==
    /\ Len(written) >= 2
    /\ Len(results) >= 2
    /\ results[1].index > results[2].index
    /\ HasFinding(results[1].output)
    /\ HasFinding(results[2].output)

\* A text that is empty or whitespace only.
IsBlank(text) == \A k \in 1..Len(text) : text[k] \in Whitespace

\* The absolute indices the recorder has received so far: the completed ones
\* that are in neither channel any more.
Delivered ==
    {cfg.base_index + results[k].index : k \in 1..Len(results)}
        \ ({cfg.base_index + fwdChan[k].index : k \in 1..Len(fwdChan)}
           \cup {recChan[k].idx :
                     k \in {j \in 1..Len(recChan) : recChan[j].type = "record"}})

\* The first index from base_index on that the recorder has not received.
FirstMissing ==
    CHOOSE g \in cfg.base_index..NumTargets :
        /\ g \notin Delivered
        /\ \A i \in cfg.base_index..(g - 1) : i \in Delivered

\* C9: a record whose output is empty or whitespace only never adds a line to
\* the output file, yet it is committed like any other: between two messages
\* next_expected_index has passed every record received in sequence, blank or
\* not, and the checkpoint holds that next_index.
C9_EmptyFindingSuppression ==
    /\ \A k \in 1..Len(outFile) : ~IsBlank(outFile[k].output)
    /\ \A k \in 1..Len(outBuf) : ~IsBlank(outBuf[k].output)
    /\ (recPc = "loop" /\ scanPc # "dropped") =>
          /\ next_expected_index = FirstMissing
          /\ ckptFile.present /\ next_expected_index > cfg.base_index
                => ckptFile.next_index = next_expected_index

\* C9 witness: a whitespace-only record is committed, the checkpoint is past it
\* and no line stands for it.
C9_Witness ==
    /\ recPc = "loop"
    /\ ckptFile.present
    /\ \E i \in cfg.base_index..(ckptFile.next_index - 1) :
          /\ probeOut[i + 1] = <<" ">>
          /\ LinesFor(outFile \o outBuf, i) = {}
          /\ \E j \in 0..(i - 1) : LinesFor(outFile \o outBuf, j) # {}

\* C10: a scan that is interrupted and rerun with --resume until it completes
\* leaves every finding of an uninterrupted scan in the output file, and only
\* findings at or after the checkpoint's next_index at the interruption twice.
C10_ResumeCorrectness ==
    (entry = "cli" /\ mainPc = "exit_ok" /\ resume) =>
        /\ \A i \in FindingIndices : LinesFor(outFile, i) # {}
        /\ \A i \in 0..(NumTargets - 1) :
              Cardinality(LinesFor(outFile, i)) > 1 => i >= crashNext

\* The targets-file indices whose probe this process has invoked; execute
\* starts one invocation for every submission index below position.
Invoked == {cfg.base_index + i : i \in 0..(position - 1)}

IsPrefix(a, b) == Len(a) <= Len(b) /\ SubSeq(b, 1, Len(a)) = a

\* C11: a scan resumed from a checkpoint with next_index = k < total invokes the
\* probe for no index below k, keeps the lines the output file had and appends
\* to them, and once it has nothing left to do the probe has been invoked for
\* exactly the indices k..total-1 and the checkpoint file is removed.
C11_ResumeSkipsCompleted ==
    (entry = "cli" /\ resume /\ scanPc # "idle" /\ ~fault) =>
        /\ \A i \in Invoked : i >= atStart.ckpt.next_index
        /\ IsPrefix(atStart.out, outFile)
        /\ ~ENABLED Program =>
              /\ Invoked = atStart.ckpt.next_index..(NumTargets - 1)
              /\ ~ckptFile.present

\* The checkpoint the current --resume command found names another targets
\* path or another mode than the command does.
ResumeMismatch ==
    /\ entry = "cli"
    /\ resume
    /\ atStart.ckpt.present
    /\ \/ atStart.ckpt.targets_path # request.targets_path
       \/ atStart.ckpt.mode # request.mode

\* C12: with --resume, a checkpoint whose targets path or mode differs from the
\* requested one makes the scan command return an error; no probe is started
\* and the checkpoint file and the output file stay as they were found.
C12_ResumeMismatch ==
    ResumeMismatch =>
        /\ mainPc = "exit_err"
        /\ scanPc = "idle"
        /\ execPc = "idle"
        /\ position = 0
        /\ pending = {}
        /\ ckptFile = atStart.ckpt
        /\ outFile = atStart.out
        /\ outBuf = <<>>

\* C12 witness: a resumed command has ended on a checkpoint of the same targets
\* path and another mode, with lines in the output file.
C12_Witness ==
    /\ ResumeMismatch
    /\ mainPc = "exit_err"
    /\ atStart.ckpt.targets_path = request.targets_path
    /\ atStart.out # <<>>

\* The submission indices whose invocation has completed with an error of the
\* probe (InvalidTarget): started, no longer in flight, and the probe's answer
\* for the target is the error.
FailedInvocations ==
    {i \in 0..(position - 1) :
        i \notin pending /\ probeOut[cfg.base_index + i + 1] = ProbeErr}

\* C13: when a probe invocation has returned an InvalidTarget error during
\* scan_with_options, the scan returns a TaskFailed error naming that target
\* and no result vector.
C13_InvalidTargetAborts ==
    (entry = "lib" /\ scanPc = "returned" /\ execPc = "done"
       /\ FailedInvocations # {}) =>
        /\ scanResult.kind = "task_failed"
        /\ \E i \in FailedInvocations : scanResult.target = TargetAt(i)

\* C14: when an invocation handed to execute returns an error, execute returns
\* TaskFailed for that invocation's target; from then on no target is pulled,
\* no invocation is started or in flight and the sink gets no message; an
\* error is never buffered as a result.
C14_AbortOnFirstError ==
    /\ [](entry = "execute" =>
            \A k \in 1..Len(results) : results[k].output # ProbeErr)
    /\ [][entry = "execute" =>
            /\ (execResult.kind # "task_failed"
                  /\ execResult'.kind = "task_failed") =>
                  /\ \E i \in pending :
                        /\ probeOut[i + 1] = ProbeErr
                        /\ execResult'.target = TargetAt(i)
                  /\ pending' = {}
                  /\ position' = position
                  /\ fwdChan' = fwdChan
            /\ execResult.kind = "task_failed" =>
                  /\ execResult' = execResult
                  /\ pending' = {}
                  /\ position' = position
                  /\ fwdChan' = fwdChan
            /\ (\E i \in pending \ pending' : probeOut[i + 1] = ProbeErr) =>
                  execResult'.kind = "task_failed"]_vars

\* C14 witness: execute has returned TaskFailed after a message to the sink,
\* with a target not yet pulled from the iterator.
C14_Witness ==
    /\ entry = "execute"
    /\ execResult.kind = "task_failed"
    /\ fwdChan # <<>>
    /\ position < NumScan

\* C15: scan_with_options returns the executor's error if the executor failed,
\* whatever the recorder's outcome; otherwise a Persistence error if the
\* recorder or the forwarding task failed; otherwise the ordered vector. A
\* failed write of the recorder never yields an Ok result.
C15_ResultPrecedence ==
    /\ \A recorder_ok \in BOOLEAN :
          /\ \A t \in {"a", "b", "c"} :
                ScanOutcome(TaskFailed(t), recorder_ok) = TaskFailed(t)
          /\ ScanOutcome(Ok(Collect(results)), recorder_ok) =
                (IF recorder_ok THEN Ok(Collect(results)) ELSE Persistence)
    /\ scanResult.kind # "none" =>
          /\ execResult.kind # "ok" => scanResult = execResult
          /\ (execResult.kind = "ok" /\ (recPc = "err" \/ fwdPc = "err")) =>
                scanResult = Persistence
          /\ (execResult.kind = "ok" /\ recPc # "err" /\ fwdPc # "err") =>
                scanResult = Ok(ExpectedVector)
          /\ fault => scanResult.kind # "ok"

\* C15 witness: a scan whose executor succeeded has returned a Persistence
\* error after a write of the recorder failed with findings already buffered.
C15_Witness ==
    /\ scanResult = Persistence
    /\ execResult.kind = "ok"
    /\ fault
    /\ Len(results) >= 2

\* C16: read_checkpoint after write_checkpoint returns the written checkpoint:
\* from_str(c.to_string()) is Some(c) for every checkpoint c.
C16_CheckpointRoundTrip ==
    (/\ ckIn.present
     /\ ckBytes = [exists |-> TRUE, bytes |-> to_string(ckIn)]
     /\ ckRead # Unread) => ckRead = [kind |-> "ok", value |-> ckIn]

\* The text has a line with "=" whose key, trimmed, is the given one.
HasLineFor(data, key) ==
    \E j \in 1..Len(Lines(data)) :
        EqPos(Lines(data)[j]) # 0 /\ KeyOf(Lines(data)[j]) = key

\* Lines that carry none of the four keys: no "=", an unknown key, empty.
IgnoredLines ==
    {<<"j", "u", "n", "k">>, <<"other", "=", "z">>, <<>>, KeyNextIndex}

\* The texts got from data by inserting one ignored line at a line boundary.
WithIgnoredLine(data) ==
    {SubSeq(data, 1, k) \o line \o <<"\n">> \o SubSeq(data, k + 1, Len(data)) :
        k \in {j \in 0..Len(data) : j = 0 \/ data[j] = "\n"},
        line \in IgnoredLines}

\* C17: read_checkpoint never returns an error for a missing file or for
\* content that does not parse, but none; from_str returns Some exactly when the
\* text has a line for each of the four keys and the value of next_index parses
\* as a non-negative integer; lines with unknown keys or without "=" never
\* change the result.
C17_ParseRobustness ==
    ckRead # Unread =>
        /\ ckRead.kind = "ok"
        /\ ~ckBytes.exists => ~ckRead.value.present
        /\ (ckBytes.exists /\ IsUtf8(ckBytes.bytes)) =>
              /\ ckRead.value.present <=>
                    /\ \A key \in {KeyNextIndex, KeyTargets, KeyOutput, KeyMode} :
                          HasLineFor(ckBytes.bytes, key)
                    /\ ParseUsize(Get(ckBytes.bytes, KeyNextIndex).value).ok
              /\ \A text \in WithIgnoredLine(ckBytes.bytes) :
                    from_str(text) = ckRead.value

\* C18: for the baseline and for the attack response, 504 is the only status
\* that counts as a finding; every other status counts as none.
C18_StatusInterpretation ==
    \A k \in 1..Len(tmLog) :
        (tmLog[k].request \in {"baseline", "attack"} /\ tmLog[k].resp.ok) =>
            (tmLog[k].counted <=> tmLog[k].resp.status = 504)

\* C19: with one detected protocol P without port, a baseline status that is
\* no finding and the attack answered 504, execute returns exactly
\* "[+] gateway timeout! <P> <target>".
C19_FindingText ==
    (/\ tmPc = "done"
     /\ Len(tmDetected) = 1
     /\ ~tmDetected[1].port.some
     /\ \E k \in 1..Len(tmLog) :
           /\ tmLog[k].request = "baseline"
           /\ tmLog[k].resp.ok
           /\ tmLog[k].resp.status # 504
     /\ \E k \in 1..Len(tmLog) :
           /\ tmLog[k].request = "attack"
           /\ tmLog[k].resp = Status(504)) =>
        /\ tmOut.kind = "ok"
        /\ tmOut.text = <<"[+] gateway timeout!", " ",
                          tmDetected[1].protocol, " ", ProbeTarget>>

\* The re-check of payload p after iteration i was answered with a status
\* that differs from the baseline status and is not one of the ignored ones.
RecheckDiffers(p, i) ==
    \E k \in 1..Len(tsLog) :
        /\ tsLog[k].request = "recheck"
        /\ tsLog[k].payload = p
        /\ tsLog[k].iter = i
        /\ tsLog[k].resp.ok
        /\ tsLog[k].resp.status # tsBaseline
        /\ tsLog[k].resp.status \notin {403, 409, 420, 429, 502, 503}

\* The findings about payload p, whatever statuses they name.
FindingsOf(p) ==
    {k \in 1..Len(tsFindings) :
        \E b, c \in {200, 403, 404, 500, 503} :
            tsFindings[k] = <<"[!]", " ", ProbeTarget, " ",
                              "resp difference: baseline", " ">>
                            \o ToDecimal(b) \o <<" ", "curr", " ">>
                            \o ToDecimal(c) \o <<" ", "payload", " ">>
                            \o SmugPayloads[p]}

\* C20: a payload has a finding exactly when the baseline re-checks after
\* both of its iterations differ from the baseline status and are not
\* ignored; the finding names the baseline status and the status of the
\* second re-check; a payload whose first re-check does not differ gets
\* no second raw send.
C20_DoubleProbe ==
    /\ \A k \in 1..Len(tsFindings) :
          \E p \in 1..Len(tsAttacks) : k \in FindingsOf(p)
    /\ \A p \in 1..Len(tsAttacks) :
          /\ (FindingsOf(p) # {}) <=> (RecheckDiffers(p, 0) /\ RecheckDiffers(p, 1))
          /\ Cardinality(FindingsOf(p)) <= 1
          /\ \A k \in FindingsOf(p) :
                \E j \in 1..Len(tsLog) :
                    /\ tsLog[j].request = "recheck"
                    /\ tsLog[j].payload = p
                    /\ tsLog[j].iter = 1
                    /\ tsFindings[k] =
                         <<"[!]", " ", ProbeTarget, " ",
                           "resp difference: baseline", " ">>
                         \o ToDecimal(tsBaseline) \o <<" ", "curr", " ">>
                         \o ToDecimal(tsLog[j].resp.status)
                         \o <<" ", "payload", " ">> \o SmugPayloads[p]
          /\ (\E j \in 1..Len(tsLog) :
                  /\ tsLog[j].request = "recheck"
                  /\ tsLog[j].payload = p
                  /\ tsLog[j].iter = 0
                  /\ ~RecheckDiffers(p, 0)) =>
                ~\E j \in 1..Len(tsLog) :
                    /\ tsLog[j].request = "raw"
                    /\ tsLog[j].payload = p
                    /\ tsLog[j].iter = 1

\* C20 witness: execute has returned; the first payload differed twice and
\* has its finding, the second differed on its first iteration only and
\* has none.
C20_Witness ==
    /\ tsPc = "done"
    /\ tsOut.kind = "ok"
    /\ Len(tsAttacks) = 2
    /\ RecheckDiffers(1, 0) /\ RecheckDiffers(1, 1)
    /\ FindingsOf(1) # {}
    /\ RecheckDiffers(2, 0) /\ ~RecheckDiffers(2, 1)
    /\ \E j \in 1..Len(tsLog) :
          tsLog[j].request = "recheck" /\ tsLog[j].payload = 2 /\ tsLog[j].iter = 1
    /\ FindingsOf(2) = {}
    /\ tsOut.text = tsFindings[1]

\* C21: the text TrailSmugTask::execute returns holds no tab character, so
\* that a record of the output file has one tab, between target and output.
C21_NoTabInFinding ==
    tsOut.kind = "ok" =>
        \A k \in 1..Len(tsOut.text) : tsOut.text[k] # "\t"

\* C22: TrailMergeTask::execute returns an error only for an InvalidTarget
\* failure; a failure of any other kind, at any step, ends in Ok.
C22_OnlyInvalidTargetPropagates ==
    tmOut.kind = "err" => tmOut.err = "InvalidTarget"

\* C23: when a send of the payload loop fails (the raw send of a payload or
\* the baseline re-check after it), TrailSmugTask::execute returns Ok with
\* the findings gathered so far joined by line breaks, never an error.
C23_SendErrorsKeepFindings ==
    (\E k \in 1..Len(tsLog) :
        /\ tsLog[k].request \in {"raw", "recheck"}
        /\ ~tsLog[k].resp.ok) =>
        /\ tsPc = "done"
        /\ tsOut.kind = "ok"
        /\ tsOut.text = Join(tsFindings)

\* The line a timeout of the protocol at position i of tmDetected stands for.
TimeoutLine(i) == <<"[!] timeout", " ", tmDetected[i].protocol, " ", ProbeTarget>>

\* C24: a Timeout of the baseline or of the attack request of a detected
\* protocol puts the line "[!] timeout <proto> <target>" into the findings,
\* and the scan goes on with the next detected protocol.
C24_TimeoutLine ==
    \A k \in 1..Len(tmLog) :
        (/\ tmLog[k].request \in {"baseline", "attack"}
         /\ tmLog[k].resp = Failure("Timeout")) =>
            /\ \E j \in 1..Len(tmFindings) : tmFindings[j] = TimeoutLine(tmLog[k].index)
            /\ tmLog[k].index < Len(tmDetected) =>
                  (tmPc # "done" \/ \E j \in 1..Len(tmLog) : tmLog[j].index > tmLog[k].index)

\* The scan of the protocol at position i of tmDetected has ended.
ProtocolScanned(i) ==
    \/ tmPc = "done"
    \/ tmIndex > i

\* An attack request was sent for the protocol at position i.
AttackSent(i) ==
    \E j \in 1..Len(tmLog) : tmLog[j].index = i /\ tmLog[j].request = "attack"

\* C25: a baseline status that counts as a finding ends the scan of its
\* protocol with no attack request and no finding; after any other baseline
\* status the attack request is sent, and every finding that is not a timeout
\* line is what the status of an attack response stands for.
C25_BaselineGate ==
    /\ \A k \in 1..Len(tmLog) :
          (tmLog[k].request = "baseline" /\ tmLog[k].resp.ok) =>
              IF tmLog[k].counted
              THEN ~AttackSent(tmLog[k].index)
              ELSE ProtocolScanned(tmLog[k].index) => AttackSent(tmLog[k].index)
    /\ \A f \in 1..Len(tmFindings) :
          \/ \E i \in 1..Len(tmDetected) : tmFindings[f] = TimeoutLine(i)
          \/ \E j \in 1..Len(tmLog) :
                /\ tmLog[j].request = "attack"
                /\ tmLog[j].resp.ok
                /\ interpret_status(tmDetected[tmLog[j].index],
                                    tmLog[j].resp.status, ProbeTarget)
                     = SomeText(tmFindings[f])

\* The first baseline request failed or was answered with a listed status.
BaselineRejected ==
    \E k \in 1..Len(tsLog) :
        /\ tsLog[k].request = "baseline"
        /\ \/ ~tsLog[k].resp.ok
           \/ tsLog[k].resp.status \in
                {301, 302, 307, 308, 400, 403, 404, 408, 429, 502, 503, 504}

\* C26: when the first baseline request fails or is answered with one of
\* 301, 302, 307, 308, 400, 403, 404, 408, 429, 502, 503, 504,
\* TrailSmugTask::execute returns the empty text and sends no raw payload.
C26_SmugBaselineGate ==
    BaselineRejected =>
        /\ tsPc = "done"
        /\ tsOut.kind = "ok"
        /\ tsOut.text = <<>>
        /\ \A k \in 1..Len(tsLog) : tsLog[k].request # "raw"

\* C26 witness: execute has returned after a baseline answered 503.
C26_Witness ==
    /\ tsPc = "done"
    /\ tsLog = <<[payload |-> 0, iter |-> 0, request |-> "baseline",
                 resp |-> Status(503)]>>
    /\ tsOut.kind = "ok"
    /\ tsOut.text = <<>>

\* C27: while an invocation pauses between the iterations of a payload, every
\* other invocation in flight that waits for a send can take its step, and
\* so can the spawned forwarding and recorder tasks.
C27_CooperativePause ==
    \A i \in 1..Len(psPending) :
        psPending[i].pc = "sleep" =>
            /\ \A j \in 1..Len(psPending) :
                  (j # i /\ psPending[j].pc \in {"raw", "recheck"}) =>
                      ENABLED PsStep(j)
            /\ psSpawned < MaxSpawnedSteps => ENABLED PsSpawnedStep

\* The message execute sends to its sink for submission index i.
SinkMessage(i) ==
    [index |-> i, target |-> TargetAt(i),
     output |-> probeOut[cfg.base_index + i + 1]]

\* C28: with a sink, execute sends one message (submission_index, target,
\* output) for every invocation that completed with Ok, in the order of
\* completion and in the step that completes it, which is the step that
\* starts the replacement invocation; nothing is sent for an invocation
\* that is still in flight or that failed.
C28_SinkForwarding ==
    /\ []((entry = "execute" /\ recorder) =>
            /\ fwdChan = results
            /\ \A k \in 1..Len(fwdChan) :
                  /\ fwdChan[k] = SinkMessage(fwdChan[k].index)
                  /\ fwdChan[k].output # ProbeErr
                  /\ fwdChan[k].index \notin pending
                  /\ fwdChan[k].index < position
                  /\ \A j \in 1..Len(fwdChan) :
                        fwdChan[j].index = fwdChan[k].index => j = k)
    /\ [][(entry = "execute" /\ recorder /\ execPc = "wait") =>
            \E i \in pending :
                /\ i \notin pending'
                /\ IF probeOut[cfg.base_index + i + 1] = ProbeErr
                   THEN fwdChan' = fwdChan /\ position' = position
                   ELSE /\ fwdChan' = Append(fwdChan, SinkMessage(i))
                        /\ position' \in {position, position + 1}]_vars

\* C28 witness: two invocations have been forwarded in an order of completion
\* that is not the order of submission, and a replacement is in flight.
C28_Witness ==
    /\ entry = "execute"
    /\ recorder
    /\ Len(fwdChan) = 2
    /\ fwdChan[1].index > fwdChan[2].index
    /\ pending # {}
    /\ position = 3

\* The submission indices of the invocations that completed with Ok.
CompletedIndices == {results[k].index : k \in 1..Len(results)}

\* C29: the submission indices handed out are 0, 1, 2, ... in the order of
\* the input iterator, each to one invocation; and while execute waits for a
\* completion, N invocations are in flight or the iterator is exhausted.
C29_SubmissionOrder ==
    /\ [](execPc = "wait" =>
            /\ pending \cup CompletedIndices = 0..(position - 1)
            /\ pending \cap CompletedIndices = {}
            /\ Cardinality(CompletedIndices) = Len(results)
            /\ \A k \in 1..Len(results) :
                  results[k].target = targetsFile[cfg.base_index + results[k].index + 1]
            /\ \/ Cardinality(pending) = (IF threads < 1 THEN 1 ELSE threads)
               \/ position = NumScan)
    /\ [][(execPc = "wait" /\ execPc' \in {"wait", "done"}) =>
            /\ position' >= position
            /\ pending' \ pending \subseteq position..(position' - 1)
            /\ execPc' = "wait" => pending' \ pending = position..(position' - 1)]_vars

\* C29 witness: execute waits with a full pool of two after a completion
\* made it pull the third target.
C29_Witness ==
    /\ execPc = "wait"
    /\ Len(results) = 1
    /\ threads = 2
    /\ Cardinality(pending) = 2
    /\ position = 3

\* The Record messages on their way to the recorder.
RecordsInFlight == {k \in 1..Len(recChan) : recChan[k].type = "record"}

\* C30: a Record message carries base_index + submission_index; the indices
\* delivered in one run lie in [base_index, base_index + total_targets), none
\* is delivered twice, and in a CLI run the index is the position of the
\* message's target in the targets file.
C30_AbsoluteIndex ==
    /\ [](\A k \in RecordsInFlight :
            /\ recChan[k].idx >= cfg.base_index
            /\ recChan[k].idx < cfg.base_index + cfg.total_targets
            /\ recChan[k].idx >= next_expected_index
            /\ \A r \in recPending : r.idx # recChan[k].idx
            /\ \A j \in RecordsInFlight : recChan[j].idx = recChan[k].idx => j = k
            /\ entry = "cli" => recChan[k].target = targetsFile[recChan[k].idx + 1])
    /\ [][(Len(recChan') = Len(recChan) + 1 /\ recChan'[Len(recChan')].type = "record") =>
            /\ fwdChan # <<>>
            /\ recChan'[Len(recChan')].idx = cfg.base_index + Head(fwdChan).index
            /\ recChan'[Len(recChan')].target = Head(fwdChan).target
            /\ recChan'[Len(recChan')].output = Head(fwdChan).output]_vars

\* C30 witness: in a resumed CLI run that skipped at least one target, the
\* result with submission index 0 is on its way to the recorder.
C30_Witness ==
    /\ entry = "cli"
    /\ cfg.base_index >= 1
    /\ \E k \in RecordsInFlight :
          /\ recChan[k].idx = cfg.base_index
          /\ \E j \in 1..Len(results) : results[j].index = 0

\* ------------------------------------------- the scan command on what it finds

\* The scan command is started once over whatever an earlier run has left: no
\* checkpoint, or one at any index up to one past the targets the pool can
\* hold (the targets file may have been shortened since), and an output file
\* with or without a line.
InitResume ==
    /\ entry = "cli"
    /\ recorder = TRUE
    /\ \E n \in 0..MaxTargets :
          /\ targetsFile = SubSeq(TargetPool, 1, n)
          /\ probeOut \in [1..n -> Outputs]
    /\ threads \in 1..MaxThreads
    /\ ckptFile \in {NoCkpt} \cup
          {Checkpoint(k, TargetsArg, OutputArg, ModeArg) : k \in 0..(MaxTargets + 1)}
    /\ outFile \in {<<>>, <<OldLine>>}
    /\ outBuf = <<>>
    /\ mainPc = "init"
    /\ resume = FALSE
    /\ crashes = 0
    /\ scanPc = "idle"
    /\ scanResult = NoResult
    /\ cfg = NoCfg
    /\ execPc = "idle"
    /\ position = 0
    /\ pending = {}
    /\ results = <<>>
    /\ execResult = NoResult
    /\ fwdChan = <<>>
    /\ senderAlive = FALSE
    /\ fwdPc = "none"
    /\ recChan = <<>>
    /\ handleAlive = FALSE
    /\ recPc = "none"
    /\ recAfter = "loop"
    /\ next_expected_index = 0
    /\ recPending = {}
    /\ written = <<>>
    /\ committed = 0
    /\ fault = FALSE
    /\ crashNext = -1
    /\ request = FirstRequest
    /\ atStart = [ckpt |-> ckptFile, out |-> outFile]
    /\ callerSent = <<>>
    /\ CkIdle
    /\ TmIdle
    /\ TsIdle
    /\ PsIdle

\* One run of the scan command, not killed.
NextResume ==
    \/ \E r \in BOOLEAN, req \in Requests : MainStart(r, req)
    \/ MainExit
    \/ ScanStart
    \/ ScanFinalize
    \/ ScanReturn
    \/ \E i \in 0..(MaxTargets - 1) : ExecComplete(i)
    \/ FwdRecv
    \/ FwdClose
    \/ RecOpen
    \/ RecRecv
    \/ RecTick
    \/ RecCommit
    \/ RecCkpt
    \/ RecIoFail

SpecResume == InitResume /\ [][NextResume]_vars

\* The recorder takes a Record message below next_expected_index off its
\* channel and goes on.
StaleRecordHandled ==
    /\ recPc = "loop"
    /\ recChan # <<>>
    /\ Head(recChan).type = "record"
    /\ Head(recChan).idx < next_expected_index
    /\ recChan' = Tail(recChan)
    /\ recPc' # "err"

\* C31: a Record message whose absolute_index is below next_expected_index
\* is dropped: the output file and what is written to its handle, the
\* reorder buffer, next_expected_index and the checkpoint file stay as they
\* are, and the recorder goes on with its loop.
C31_StaleRecordDiscard ==
    [][StaleRecordHandled =>
          /\ UNCHANGED <<outFile, outBuf, written, recPending,
                         next_expected_index, ckptFile>>
          /\ recPc' = "loop"]_vars

\* C31 witness: the record for index 0 was sent twice; the first was written
\* and checkpointed, the second has been taken off the channel.
C31_Witness ==
    /\ entry = "recorder"
    /\ recPc = "loop"
    /\ recChan = <<>>
    /\ Len(callerSent) = 2
    /\ callerSent[1] = callerSent[2]
    /\ callerSent[1].type = "record"
    /\ callerSent[1].idx = 0
    /\ next_expected_index = 1
    /\ written = <<0>>
    /\ recPending = {}

\* The recorder's channel has closed and the recorder has ended without an
\* error while the index it expects next is below the end of the run: that
\* index was never received.
ClosedWithGap ==
    /\ recPc = "ok"
    /\ next_expected_index < cfg.base_index + cfg.total_targets

\* C32: when the channel closes while g = next_expected_index was never
\* received, no record with an index above g (nor g itself) is in the output
\* file, the checkpoint file holds next_index = g, and the checkpoint file is
\* deleted only when next_expected_index >= base_index + total_targets.
C32_GapsStopCheckpoint ==
    /\ [](ClosedWithGap =>
            /\ \A k \in 1..Len(written) : written[k] < next_expected_index
            /\ \A k \in 1..Len(outFile) : outFile[k].idx < next_expected_index
            /\ outBuf = <<>>
            /\ ckptFile = Checkpoint(next_expected_index, cfg.targets_path,
                                     cfg.output_path, cfg.mode))
    /\ [][(ckptFile.present /\ ~ckptFile'.present) =>
            next_expected_index >= cfg.base_index + cfg.total_targets]_vars

\* C32 witness: index 0 was written, index 1 never came, index 2 was sent and
\* the channel closed: the recorder has ended with the checkpoint at 1.
C32_Witness ==
    /\ entry = "recorder"
    /\ ClosedWithGap
    /\ cfg.base_index = 0
    /\ next_expected_index = 1
    /\ written = <<0>>
    /\ \E k \in 1..Len(callerSent) :
          callerSent[k].type = "record" /\ callerSent[k].idx = 2
    /\ ckptFile.present

\* The number of results the executor has gathered (and forwarded) that form a
\* contiguous run of submission indices from 0.
RECURSIVE ContiguousRun(_)
ContiguousRun(n) ==
    IF \E k \in 1..Len(results) : results[k].index = n
    THEN ContiguousRun(n + 1)
    ELSE n

\* C33: under scan_with_options with a recorder, once a probe invocation has
\* returned an error the executor has aborted with that error, and when
\* scan_with_options has returned it returns the error with every result
\* forwarded before the abort, as far as they form a contiguous run from the
\* base index, written and checkpointed.
C33_DrainAfterAbort ==
    (entry = "lib" /\ recorder /\ ~fault /\ scanPc \in {"exec", "await", "returned"}
       /\ FailedInvocations # {}) =>
        /\ execPc = "done"
        /\ execResult.kind = "task_failed"
        /\ scanPc = "returned" =>
              /\ scanResult.kind = "task_failed"
              /\ next_expected_index >= cfg.base_index + ContiguousRun(0)
              /\ next_expected_index > cfg.base_index =>
                    /\ ckptFile.present
                    /\ ckptFile.next_index = next_expected_index

\* The lines of the findings this run has written to the output handle, in the
\* order it wrote them.
ThisRunLines ==
    [k \in 1..Len(written) |->
        [idx |-> written[k], target |-> targetsFile[written[k] + 1],
         output |-> probeOut[written[k] + 1]]]

\* C34: in a run of the scan command the output file is untouched until the
\* Recorder opens it; from then on, on a fresh run the file and what is written
\* to its handle hold exactly this run's findings, and on a resumed run they
\* hold every line the file had before, unchanged, followed by this run's
\* findings. (A Recorder that failed before it wrote anything may have failed
\* to open the file, which then is as it was.)
C34_TruncateOrAppend ==
    (entry = "cli" /\ mainPc = "scanning") =>
        /\ recPc \in {"none", "open"} => outFile = atStart.out /\ outBuf = <<>>
        /\ (recPc \notin {"none", "open"} /\ ~resume) =>
              \/ /\ Flushed = ThisRunLines
                 /\ IsPrefix(outFile, ThisRunLines)
              \/ /\ recPc = "err"
                 /\ written = <<>>
                 /\ Flushed = atStart.out
        /\ (recPc \notin {"none", "open"} /\ resume) =>
              /\ Flushed = atStart.out \o ThisRunLines
              /\ IsPrefix(atStart.out, outFile)

\* C34 witness: a fresh run that found lines of an earlier run in the output
\* file has opened the file and has written a finding of its own.
C34_Witness ==
    /\ entry = "cli"
    /\ mainPc = "scanning"
    /\ ~resume
    /\ atStart.out # <<>>
    /\ recPc = "loop"
    /\ written # <<>>
    /\ Flushed = ThisRunLines

\* A resumed run has appended a finding to the lines the file had.
C34_ResumedAppends ==
    /\ entry = "cli"
    /\ mainPc = "scanning"
    /\ resume
    /\ atStart.out # <<>>
    /\ recPc = "loop"
    /\ written # <<>>
    /\ outBuf = <<>>

\* The scan command was started with --resume and found no checkpoint it could
\* use: no file, or content that does not parse.
ResumeWithoutCheckpoint ==
    /\ entry = "cli"
    /\ mainPc # "init"
    /\ resume
    /\ ~atStart.ckpt.present

\* C35: with --resume and no checkpoint file, or one whose content does not
\* parse, the scan command returns an error; no probe is started, no
\* checkpoint is written and the output file stays as it was found.
C35_ResumeWithoutCheckpoint ==
    ResumeWithoutCheckpoint =>
        /\ mainPc = "exit_err"
        /\ scanPc = "idle"
        /\ execPc = "idle"
        /\ recPc = "none"
        /\ position = 0
        /\ pending = {}
        /\ ckptFile = atStart.ckpt
        /\ outFile = atStart.out
        /\ outBuf = <<>>

\* C35 witness: a command resumed over a targets file that is not empty has
\* ended without having found a checkpoint.
C35_Witness ==
    /\ ResumeWithoutCheckpoint
    /\ mainPc = "exit_err"
    /\ NumTargets > 0
    /\ request = FirstRequest

\* A probe of this run of the scan command has been started.
ProbeStarted == entry = "cli" /\ mainPc = "scanning" /\ position > 0

\* The recorder has completed cleanly: every target of the run is committed and
\* finish has removed the checkpoint.
CleanCompletion ==
    /\ recPc = "ok"
    /\ next_expected_index >= cfg.base_index + cfg.total_targets

\* The checkpoint file parses to a checkpoint for the targets, the output and
\* the mode of the run, at an index of the run.
CheckpointOfRun(file, run, req) ==
    /\ file.present
    /\ from_str(to_string(file)) = file
    /\ file.targets_path = req.targets_path
    /\ file.output_path = run.output_path
    /\ file.mode = req.mode
    /\ file.next_index >= run.base_index
    /\ file.next_index <= run.base_index + run.total_targets

ResumeFinished ==
    /\ entry = "cli"
    /\ mainPc # "init"
    /\ resume
    /\ atStart.ckpt.present
    /\ ~Mismatch(atStart.ckpt, request)
    /\ atStart.ckpt.next_index >= NumTargets

\* C37: with --resume on a checkpoint whose next_index is at or beyond the
\* number of loaded targets, the command succeeds with no probe invoked, the
\* output file as it was found and the checkpoint file removed.
C37_ResumeFinished ==
    ResumeFinished =>
        /\ mainPc = "exit_ok"
        /\ scanPc = "idle"
        /\ execPc = "idle"
        /\ recPc = "none"
        /\ position = 0
        /\ pending = {}
        /\ outFile = atStart.out
        /\ outBuf = <<>>
        /\ ~ckptFile.present

\* C37 witness: the command was resumed over two targets on a checkpoint at
\* index 3, with a line in the output file, and has ended.
C37_Witness ==
    /\ ResumeFinished
    /\ NumTargets = 2
    /\ atStart.ckpt.next_index = 3
    /\ atStart.out # <<>>
    /\ mainPc = "exit_ok"

\* The write of the line of the expected record fails: write_all returns an
\* error in commit_ready.
FindingWriteFails == recPc = "commit" /\ recPc' = "err"

\* C38: when writing the finding of index i fails, the Recorder stops with the
\* error, next_expected_index stays i and the checkpoint file is not rewritten;
\* and the checkpoint of a Recorder that has stopped with an error never holds
\* more than its next_expected_index.
C38_FailedWriteKeepsCheckpoint ==
    /\ [][FindingWriteFails =>
            /\ next_expected_index' = next_expected_index
            /\ ckptFile' = ckptFile
            /\ ckptFile.present => ckptFile.next_index <= next_expected_index
            /\ fault'
            /\ UNCHANGED <<outFile, outBuf, written>>]_vars
    /\ []((recPc = "err" /\ ckptFile.present) =>
            ckptFile.next_index <= next_expected_index)

\* C38 witness: under the scan command the Recorder has committed index 0, has
\* received the finding of index 1 and has stopped with an error, with index 1
\* neither written nor checkpointed.
C38_Witness ==
    /\ entry = "cli"
    /\ mainPc = "scanning"
    /\ recPc = "err"
    /\ fault
    /\ written = <<0>>
    /\ next_expected_index = 1
    /\ ckptFile.present
    /\ ckptFile.next_index = 1
    /\ NumTargets >= 2
    /\ HasFinding(probeOut[2])
    /\ \E k \in 1..Len(results) : results[k].index = 1

\* The Recorder task of a scan has ended with an I/O error.
RecorderFailed == entry \in {"cli", "lib"} /\ recorder /\ recPc = "err"

\* C39: after the Recorder task has failed during a scan, the executor goes on:
\* a waiting executor can complete each invocation in flight, the scan does not
\* leave the executor before it is done, nothing more reaches the output and
\* the checkpoint, and when scan_with_options returns every target has been
\* run to completion and the result is the Persistence error.
C39_RecorderFailureKeepsProbing ==
    /\ []((RecorderFailed /\ scanPc = "exec" /\ execPc = "wait") =>
            /\ pending # {}
            /\ \A i \in pending : ENABLED ExecComplete(i))
    /\ []((RecorderFailed /\ scanPc \in {"await", "returned"}) =>
            /\ execPc = "done"
            /\ pending = {}
            /\ position = NumScan
            /\ Len(results) = NumScan
            /\ \A i \in 0..(NumScan - 1) :
                  \E k \in 1..Len(results) : results[k].index = i)
    /\ []((RecorderFailed /\ scanPc = "returned") => scanResult = Persistence)
    /\ []((RecorderFailed /\ scanPc # "returned") => scanResult = NoResult)
    /\ [][(RecorderFailed /\ recPc' = "err") =>
            UNCHANGED <<outFile, outBuf, ckptFile, written,
                        next_expected_index>>]_vars

\* C39 witness: the Recorder failed after the first of three targets was
\* committed; the executor ran all three and the scan returned Persistence.
C39_Witness ==
    /\ RecorderFailed
    /\ entry = "cli"
    /\ scanPc = "returned"
    /\ scanResult = Persistence
    /\ NumScan = 3
    /\ Len(results) = 3
    /\ next_expected_index = cfg.base_index + 1
    /\ threads = 1

\* The Recorder is between two message handlings: it waits in the select of
\* finish.
BetweenMessages == recorder /\ recPc = "loop"

\* C40: between two message handlings of the Recorder every key of the reorder
\* buffer is strictly greater than next_expected_index, next_expected_index
\* minus base_index is the number of records committed so far in this run, and
\* once a record has been committed the checkpoint file holds
\* next_index = next_expected_index.
C40_ReorderBufferInvariant ==
    BetweenMessages =>
        /\ \A r \in recPending : r.idx > next_expected_index
        /\ next_expected_index - cfg.base_index = committed
        /\ committed > 0 =>
              /\ ckptFile.present
              /\ ckptFile.next_index = next_expected_index

\* C40 witness: a Recorder started at base index 1 has committed index 1 and
\* holds index 3 in its buffer while it waits for index 2.
C40_Witness ==
    /\ entry = "recorder"
    /\ BetweenMessages
    /\ recChan = <<>>
    /\ cfg.base_index = 1
    /\ next_expected_index = 2
    /\ committed = 1
    /\ \E r \in recPending : r.idx = 3
    /\ ckptFile.next_index = 2

====
